---- MODULE Spec2Model ----
(***************************************************************************)
(* Zoom/pan engines of mermaidcn.                                          *)
(*                                                                         *)
(*   "dom"      second ZoomPan of src/components/zoom-pan.tsx (558-1184)   *)
(*   "canvas"   third ZoomPan of src/components/zoom-pan.tsx (1186-1719)   *)
(*   "registry" ZoomPan of src/registry/mermaidcn/zoom-pan.tsx             *)
(*                                                                         *)
(* Numbers are fixed point: offsets, sizes and pointer positions in 1/1000 *)
(* px, velocities in 1/1000 px per frame, scales in 1/1000000, times in    *)
(* microseconds, powers and exponentials in 1/10000000.  Every product and *)
(* quotient of the source is one MulDiv, rounded to nearest.               *)
(***************************************************************************)
EXTENDS Integers, Naturals, Sequences, FiniteSets, TLC

VARIABLES
    engine,           \* which component is mounted: a ZoomPan engine or a Mermaid renderer
    initialScale,     \* prop initialScale
    mermaid,          \* Mermaid renderer: props, debounce timer, renders in flight, and
                      \* the svg / status / error it shows
    target,           \* targetRef.current   [x, y, scale]
    current,          \* currentRef.current  [x, y, scale]
    aliased,          \* canvas: targetRef.current and currentRef.current are one object
    velocity,         \* velocityRef.current [x, y]
    isDragging,       \* isDragging.current (registry: the isDragging state)
    isPinching,       \* isPinching.current
    panStart,         \* panStartRef.current
    targetStart,      \* targetStartRef.current (registry: lastTranslateRef)
    lastInteraction,  \* lastInteractionTimeRef.current
    touchStart,       \* touchStartRef.current, NoTouch for null
    raf,              \* rafRef.current: "null" or the kind of the pending frame callback
    frames,           \* DOM, canvas: frame callbacks requested and neither run nor cancelled
    firstFrame,       \* the pending frame is the first one since startAnimation
    zoomPan,          \* React state zoomPan (registry: the transform itself)
    dirty,            \* a React state update is queued and not yet rendered
    rendered,         \* the zoomPan value of the last render (registry: zoomPanRef.current)
    dom,              \* content element: style transform, transition, displayed scale
    percentState,     \* canvas: the scalePercent React state
    scalePercent,     \* api.scalePercent as handed to the controls render-prop
    image,            \* canvas: imageRef / hasCentered / canvas size / loads in flight
    isLoading,        \* prop isLoading as of the last render
    listening,        \* the window mousemove / mouseup listeners are attached (DOM: from
                      \* mount to unmount; registry: while isDragging was rendered true)
    last,             \* history: the last operation and what it started from
    budget            \* history: events and frames taken so far

vars == <<engine, initialScale, mermaid, target, current, aliased, velocity, isDragging,
          isPinching, panStart, targetStart, lastInteraction, touchStart, raf,
          frames, firstFrame, zoomPan, dirty, rendered, dom, percentState, scalePercent,
          image, isLoading, listening, last,
          budget>>

----------------------------------------------------------------------------
(* Bounds of the exploration *)

\* events per behaviour of Spec
MaxSteps == 4
\* events per behaviour of SpecAnchor
MaxAnchorSteps == 4
\* button calls per behaviour of SpecSettle
MaxSettleOps == 2
\* mouse moves and frames between the mouse-down and the release of SpecCoast
MaxDragSteps == 2
\* events per behaviour of SpecPinch
MaxPinchSteps == 4
\* events per behaviour of SpecRegistry
MaxRegSteps == 4
MaxGestureSteps == 5
MaxHaltOps == 4
MaxImageSteps == 5
\* events before the unmount per behaviour of SpecUnmount
MaxUnmountOps == 3
\* wheel events, button zooms and frames per behaviour of SpecLegacy
MaxLegacySteps == 4
\* changes of chart or config per behaviour of SpecMermaid
MaxMermaidSteps == 3

----------------------------------------------------------------------------
(* Fixed-point arithmetic *)

Px(n) == n * 1000
Sc(n) == n * 1000000
Unit7 == 10 * 1000000

Abs(a) == IF a < 0 THEN 0 - a ELSE a
Sgn(a) == IF a < 0 THEN 0 - 1 ELSE IF a = 0 THEN 0 ELSE 1
Min(a, b) == IF a < b THEN a ELSE b
Max(a, b) == IF a > b THEN a ELSE b

RECURSIVE MulDivNat(_, _, _)
\* <<q, r>> with a * b = q * c + r and 0 <= r < c, for a, b >= 0 and c > 0,
\* taken one decimal digit of a at a time so that no intermediate leaves 32 bits.
MulDivNat(a, b, c) ==
    IF a = 0 THEN <<0, 0>>
    ELSE LET p == MulDivNat(a \div 10, b, c)
             t == 10 * p[2] + (a % 10) * b
         IN  <<10 * p[1] + (t \div c), t % c>>

\* a * b / c rounded to nearest (half away from zero); c # 0
MulDiv(a, b, c) ==
    IF a = 0 \/ b = 0 THEN 0
    ELSE LET x == Abs(a)
             y == Abs(b)
             z == Abs(c)
             p == IF x <= 2147483647 \div y
                  THEN <<(x * y) \div z, (x * y) % z>>
                  ELSE MulDivNat(x, y, z)
             q == IF 2 * p[2] >= z THEN p[1] + 1 ELSE p[1]
         IN  Sgn(a) * Sgn(b) * Sgn(c) * q

RECURSIVE ISqrt(_)
\* floor of the square root
ISqrt(n) ==
    IF n < 2 THEN n
    ELSE LET s == 2 * ISqrt(n \div 4)
         IN  IF (s + 1) * (s + 1) <= n THEN s + 1 ELSE s

\* Math.round(scale * 100): round half up, scale in 1/1000000
RoundPercent(s) == (s + 5000) \div 10000

Pt(x, y) == [x |-> x, y |-> y]
Tr(x, y, s) == [x |-> x, y |-> y, scale |-> s]

----------------------------------------------------------------------------
(* Props (defaults) and environment *)

MinScale == 100000
MaxScale == 5000000
ZoomStep == 100000
DefaultInitialScale == 1000000

InitialScales == {MinScale, DefaultInitialScale}

\* container.getBoundingClientRect() / clientWidth / clientHeight; left = top = 0
Container == [w |-> Px(800), h |-> Px(600)]
\* natural (unscaled) size of the content element / of the loaded image
Content == [w |-> Px(1000), h |-> Px(500)]

Clamp(s) == Min(MaxScale, Max(MinScale, s))
InRange(s) == MinScale <= s /\ s <= MaxScale

----------------------------------------------------------------------------
(* Math.pow and Math.exp at the arguments the model uses, in 1/10000000 *)

\* frame-to-frame dt values in microseconds: 16.667 ms (timeScale 1), 83.335 ms
\* (timeScale 5) and a stalled frame of 150 ms
Dts == {16667, 83335, 150000}
\* the first frame after startAnimation: its timestamp is the frame's start time,
\* which may precede the performance.now() reading startAnimation took
FirstDts == Dts \cup {0 - 4000}

\* Math.pow(1 - 0.12, dt / 16.667)
Pow88(dt) ==
    CASE dt = 16667 -> 8800000
      [] dt = 33334 -> 7744000
      [] dt = 83335 -> 5277319
      [] dt = 16000 -> 8845134
      [] dt = 0 - 4000 -> 10311549

\* Math.pow(0.95, dt / 16.667)
Pow95(dt) ==
    CASE dt = 16667 -> 9500000
      [] dt = 33334 -> 9025000
      [] dt = 83335 -> 7737809
      [] dt = 16000 -> 9519521
      [] dt = 0 - 4000 -> 10123862

\* Math.exp(-delta * 0.0015), delta the normalized wheel delta
Exp15(delta) ==
    CASE delta = 0 - 100 -> 11618342
      [] delta = 100 -> 8607080
      [] delta = 120 -> 8352702
      [] delta = 0 - 800 -> 33201169
      [] delta = 800 -> 3011942

----------------------------------------------------------------------------
(* State shared by the engines *)

NoTouch == [active |-> FALSE, n |-> 0, p0 |-> Pt(0, 0), distance |-> 0,
            center |-> Pt(0, 0), scale |-> 0, translateX |-> 0, translateY |-> 0]

\* the natural size of the image an imageSrc value names: 1 the diagram, 2 an icon
\* of 100 x 100 px
ImageSize(id) == IF id = 1 THEN Content ELSE [w |-> Px(100), h |-> Px(100)]

\* the canvas engine's image state before any load has completed: imageSrc (0 when
\* empty), the image in imageRef (0 when null), the images whose load is
\* outstanding, hasCentered, and the client size of the canvas
NoImage == [src |-> 1, ref |-> 0, pending |-> {1}, hasCentered |-> FALSE,
            size |-> Container]

State(t, imm) == [scale |-> t.scale, translateX |-> t.x, translateY |-> t.y,
                  isImmediate |-> imm]

Eased == "eased"

\* the loop is running on leftover velocity, no gesture active
InMomentum == raf = "step" /\ ~isDragging /\ ~isPinching /\ velocity # Pt(0, 0)

\* history of the last operation: its name, the one before it, Target and Current
\* as it found them, its anchor point, its number (wheel delta, finger distance,
\* button, number of fingers), Target, midpoint and finger distance at the last
\* two-finger touch start, and Target, pointer and kind of the last drag start
\* and whether it found the content coasting
OpD(name, pt, d) == [op |-> name, before |-> last.op, pre |-> target, cur |-> current,
                     pt |-> pt, d |-> d, g |-> last.g, s |-> last.s]

Op(name, pt) == OpD(name, pt, 0)

\* the Mermaid renderer after mount with chart 1 and config 1.  Charts: 0 blank,
\* 2 a text mermaid.render rejects, 1 and 3 diagrams.  timer: the value the
\* pending timeout carries, -1 when none is pending.  flights: the render()
\* calls awaiting the import or mermaid.render, each with its effect's
\* isCancelled flag.  svg: the chart whose SVG is held (0 none); error: the chart
\* whose message is held; calls: onSuccess / onError calls made so far.
\* "mermaid" is src/components/mermaid.tsx (its effect has started the first
\* render), "mermaidcn" the registry component (its 300 ms timer is pending)
MermaidMounted(e) ==
    [chart |-> 1, config |-> 1, debounced |-> 1, timer |-> 1,
     flights |-> IF e = "mermaid"
                 THEN {[id |-> 1, chart |-> 1, config |-> 1, cancelled |-> FALSE,
                        stage |-> "import"]}
                 ELSE {},
     nextId |-> IF e = "mermaid" THEN 2 ELSE 1,
     svg |-> 0, svgConfig |-> 0, status |-> "loading", error |-> 0, calls |-> 0]

InitEngine(e) ==
    /\ engine = e
    /\ initialScale \in InitialScales
    /\ mermaid = MermaidMounted(e)
    /\ target = Tr(0, 0, initialScale)
    /\ current = Tr(0, 0, initialScale)
    /\ aliased = FALSE
    /\ velocity = Pt(0, 0)
    /\ isDragging = FALSE
    /\ isPinching = FALSE
    /\ panStart = Pt(0, 0)
    /\ targetStart = Pt(0, 0)
    /\ lastInteraction = Pt(0, 0)
    /\ touchStart = NoTouch
    /\ raf = "null"
    /\ frames = 0
    /\ firstFrame = FALSE
    /\ zoomPan = State(Tr(0, 0, initialScale), FALSE)
    /\ dirty = FALSE
    /\ rendered = Tr(0, 0, initialScale)
    /\ dom = [x |-> 0, y |-> 0, scale |-> initialScale, transition |-> Eased,
              shown |-> initialScale]
    /\ percentState = RoundPercent(initialScale)
    /\ scalePercent = RoundPercent(initialScale)
    /\ image = NoImage
    /\ isLoading = FALSE
    /\ listening = (e = "dom")
    /\ last = [op |-> "init", before |-> "init", pre |-> Tr(0, 0, initialScale),
               cur |-> Tr(0, 0, initialScale), pt |-> Pt(0, 0), d |-> 0,
               g |-> [t |-> Tr(0, 0, initialScale), c |-> Pt(0, 0), d |-> 0],
               s |-> [t |-> Tr(0, 0, initialScale), c |-> Pt(0, 0), k |-> "none",
                      coast |-> FALSE]]
    /\ budget = [ops |-> 0, ticks |-> 0, released |-> FALSE, reset |-> FALSE]

gestureVars == <<isDragging, isPinching, panStart, targetStart, lastInteraction, touchStart>>
propVars == <<engine, initialScale, mermaid, image, aliased, percentState, isLoading, listening>>

----------------------------------------------------------------------------
(* DOM engine: src/components/zoom-pan.tsx 558-1184 *)

\* startAnimation: a no-op while a frame is pending
RafAfterStart == IF raf = "null" THEN "step" ELSE raf

\* a startAnimation that requests a frame also while one is pending
FramesAfterStartUnguarded == frames + 1

\* startAnimation: requestAnimationFrame(step) unless rafRef.current is set
FramesAfterStart == IF raf = "null" THEN frames + 1 ELSE frames
FirstAfterStart == IF raf = "null" THEN TRUE ELSE firstFrame

\* getContainerCenter
ContainerCenter == Pt(MulDiv(Container.w, 1, 2), MulDiv(Container.h, 1, 2))
\* the anchored zoom of applyZoomToPoint: the transform it writes to targetRef
\* applyZoomToPoint without the lower clamp
ZoomToPointNoFloor(t, delta, point) ==
    LET newScale == Min(MaxScale, t.scale + delta)
    IN  Tr(point.x - MulDiv(point.x - t.x, newScale, t.scale),
           point.y - MulDiv(point.y - t.y, newScale, t.scale),
           newScale)

\* applyZoomToPoint stepping from the transform of the last render instead of
\* targetRef.current
ZoomToPointStale(t, delta, point) ==
    LET newScale == Clamp(rendered.scale + delta)
    IN  Tr(point.x - MulDiv(point.x - rendered.x, newScale, rendered.scale),
           point.y - MulDiv(point.y - rendered.y, newScale, rendered.scale),
           newScale)

\* applyZoomToPoint (DOM engine) on the transform t
ZoomToPoint(t, delta, point) ==
    LET newScale == Clamp(t.scale + delta)
    IN  Tr(point.x - MulDiv(point.x - t.x, newScale, t.scale),
           point.y - MulDiv(point.y - t.y, newScale, t.scale),
           newScale)

DomApplyZoomToPoint(name, delta, point) ==
    /\ engine = "dom"
    /\ target' = ZoomToPoint(target, delta, point)
    /\ raf' = RafAfterStart
    /\ frames' = FramesAfterStart
    /\ firstFrame' = FirstAfterStart
    /\ zoomPan' = State(target', FALSE)
    /\ dirty' = TRUE
    /\ last' = Op(name, point)
    /\ UNCHANGED <<propVars, gestureVars, current, velocity, rendered, dom, scalePercent>>

DomZoomIn == DomApplyZoomToPoint("zoomIn", ZoomStep, ContainerCenter)

DomZoomOut == DomApplyZoomToPoint("zoomOut", 0 - ZoomStep, ContainerCenter)

\* a reset that restores the scale and keeps the offset
ResetTransformKeepOffset(t) == Tr(t.x, t.y, initialScale)

\* the transform resetZoom writes over targetRef.current
ResetTransform(t) == Tr(0, 0, initialScale)

DomResetZoom ==
    /\ engine = "dom"
    /\ target' = ResetTransform(target)
    /\ zoomPan' = State(target', FALSE)
    /\ dirty' = TRUE
    /\ raf' = RafAfterStart
    /\ frames' = FramesAfterStart
    /\ firstFrame' = FirstAfterStart
    /\ last' = Op("resetZoom", Pt(0, 0))
    /\ UNCHANGED <<propVars, gestureVars, current, velocity, rendered, dom, scalePercent>>

\* the fit-to-view transform centerView computes from the measured content
\* rectangle (rw, rh) and currentRef.current.scale; NoFit when it returns early
NoFit == Tr(0, 0, 0)
FitTransform(rw, rh, currentScale) ==
    LET contentWidth == MulDiv(rw, Sc(1), currentScale)
        contentHeight == MulDiv(rh, Sc(1), currentScale)
        availableWidth == Container.w - Px(40)
        availableHeight == Container.h - Px(40)
    IN  IF contentWidth = 0 \/ contentHeight = 0 THEN NoFit
        ELSE LET scaleX == MulDiv(availableWidth, Sc(1), contentWidth)
                 scaleY == MulDiv(availableHeight, Sc(1), contentHeight)
                 fitScale == Clamp(Min(scaleX, scaleY))
             IN  Tr(MulDiv(Container.w - MulDiv(contentWidth, fitScale, Sc(1)), 1, 2),
                    MulDiv(Container.h - MulDiv(contentHeight, fitScale, Sc(1)), 1, 2),
                    fitScale)

\* content.getBoundingClientRect(): the natural size under the displayed scale
ContentRect == [w |-> MulDiv(Content.w, dom.shown, Sc(1)),
                h |-> MulDiv(Content.h, dom.shown, Sc(1))]

DomCenterView ==
    LET fit == FitTransform(ContentRect.w, ContentRect.h, current.scale)
    IN  /\ engine = "dom"
        /\ fit # NoFit
        /\ target' = fit
        /\ zoomPan' = State(fit, FALSE)
        /\ dirty' = TRUE
        /\ raf' = RafAfterStart
        /\ frames' = FramesAfterStart
        /\ firstFrame' = FirstAfterStart
        /\ last' = Op("centerView", Pt(0, 0))
        /\ UNCHANGED <<propVars, gestureVars, current, velocity, rendered, dom, scalePercent>>

\* a frame that does not snap Current to Target when the loop stops
StepNoSnap(dt, t, c, v, interacting) ==
    LET moving == Abs(v.x) > 50 \/ Abs(v.y) > 50
        t1 == IF ~interacting /\ moving
              THEN [t EXCEPT !.x = @ + MulDiv(v.x, dt, 16667),
                             !.y = @ + MulDiv(v.y, dt, 16667)]
              ELSE t
        v1 == IF interacting THEN v
              ELSE IF moving
                   THEN Pt(MulDiv(v.x, Pow95(dt), Unit7), MulDiv(v.y, Pow95(dt), Unit7))
                   ELSE Pt(0, 0)
        panFactor == Unit7 - Pow88(dt)
        zoomFactor == Unit7 - Pow88(dt)
        dx == t1.x - c.x
        dy == t1.y - c.y
        ds == t1.scale - c.scale
        c1 == Tr(c.x + MulDiv(dx, panFactor, Unit7),
                 c.y + MulDiv(dy, panFactor, Unit7),
                 c.scale + MulDiv(ds, zoomFactor, Unit7))
        isStillMoving == \/ Abs(dx) > 100
                         \/ Abs(dy) > 100
                         \/ Abs(ds) > 100
                         \/ Abs(v1.x) > 100
                         \/ Abs(v1.y) > 100
        again == isStillMoving \/ interacting
    IN  [target |-> t1, velocity |-> v1, current |-> c1,
         again |-> again]

\* a frame that leaves a velocity at or below the epsilon as it is
StepKeepsVelocity(dt, t, c, v, interacting) ==
    LET moving == Abs(v.x) > 50 \/ Abs(v.y) > 50
        t1 == IF ~interacting /\ moving
              THEN [t EXCEPT !.x = @ + MulDiv(v.x, dt, 16667),
                             !.y = @ + MulDiv(v.y, dt, 16667)]
              ELSE t
        v1 == IF interacting THEN v
              ELSE IF moving
                   THEN Pt(MulDiv(v.x, Pow95(dt), Unit7), MulDiv(v.y, Pow95(dt), Unit7))
                   ELSE v
        panFactor == Unit7 - Pow88(dt)
        zoomFactor == Unit7 - Pow88(dt)
        dx == t1.x - c.x
        dy == t1.y - c.y
        ds == t1.scale - c.scale
        c1 == Tr(c.x + MulDiv(dx, panFactor, Unit7),
                 c.y + MulDiv(dy, panFactor, Unit7),
                 c.scale + MulDiv(ds, zoomFactor, Unit7))
        isStillMoving == \/ Abs(dx) > 100
                         \/ Abs(dy) > 100
                         \/ Abs(ds) > 100
                         \/ Abs(v1.x) > 100
                         \/ Abs(v1.y) > 100
        again == isStillMoving \/ interacting
    IN  [target |-> t1, velocity |-> v1, current |-> IF again THEN c1 ELSE t1,
         again |-> again]

\* a frame whose stop condition tolerates a scale difference of 0.001
StepLooseStop(dt, t, c, v, interacting) ==
    LET moving == Abs(v.x) > 50 \/ Abs(v.y) > 50
        t1 == IF ~interacting /\ moving
              THEN [t EXCEPT !.x = @ + MulDiv(v.x, dt, 16667),
                             !.y = @ + MulDiv(v.y, dt, 16667)]
              ELSE t
        v1 == IF interacting THEN v
              ELSE IF moving
                   THEN Pt(MulDiv(v.x, Pow95(dt), Unit7), MulDiv(v.y, Pow95(dt), Unit7))
                   ELSE Pt(0, 0)
        panFactor == Unit7 - Pow88(dt)
        zoomFactor == Unit7 - Pow88(dt)
        dx == t1.x - c.x
        dy == t1.y - c.y
        ds == t1.scale - c.scale
        c1 == Tr(c.x + MulDiv(dx, panFactor, Unit7),
                 c.y + MulDiv(dy, panFactor, Unit7),
                 c.scale + MulDiv(ds, zoomFactor, Unit7))
        isStillMoving == \/ Abs(dx) > 100
                         \/ Abs(dy) > 100
                         \/ Abs(ds) > 1000
                         \/ Abs(v1.x) > 100
                         \/ Abs(v1.y) > 100
        again == isStillMoving \/ interacting
    IN  [target |-> t1, velocity |-> v1, current |-> IF again THEN c1 ELSE t1,
         again |-> again]

\* a frame whose stop condition does not look at the gesture flags
StepIgnoresGesture(dt, t, c, v, interacting) ==
    LET moving == Abs(v.x) > 50 \/ Abs(v.y) > 50
        t1 == IF ~interacting /\ moving
              THEN [t EXCEPT !.x = @ + MulDiv(v.x, dt, 16667),
                             !.y = @ + MulDiv(v.y, dt, 16667)]
              ELSE t
        v1 == IF interacting THEN v
              ELSE IF moving
                   THEN Pt(MulDiv(v.x, Pow95(dt), Unit7), MulDiv(v.y, Pow95(dt), Unit7))
                   ELSE Pt(0, 0)
        panFactor == Unit7 - Pow88(dt)
        zoomFactor == Unit7 - Pow88(dt)
        dx == t1.x - c.x
        dy == t1.y - c.y
        ds == t1.scale - c.scale
        c1 == Tr(c.x + MulDiv(dx, panFactor, Unit7),
                 c.y + MulDiv(dy, panFactor, Unit7),
                 c.scale + MulDiv(ds, zoomFactor, Unit7))
        isStillMoving == \/ Abs(dx) > 100
                         \/ Abs(dy) > 100
                         \/ Abs(ds) > 100
                         \/ Abs(v1.x) > 100
                         \/ Abs(v1.y) > 100
        again == isStillMoving
    IN  [target |-> t1, velocity |-> v1, current |-> IF again THEN c1 ELSE t1,
         again |-> again]

\* one applied frame of startAnimation's step: momentum, lerp, stop condition
Step(dt, t, c, v, interacting) ==
    LET moving == Abs(v.x) > 50 \/ Abs(v.y) > 50
        t1 == IF ~interacting /\ moving
              THEN [t EXCEPT !.x = @ + MulDiv(v.x, dt, 16667),
                             !.y = @ + MulDiv(v.y, dt, 16667)]
              ELSE t
        v1 == IF interacting THEN v
              ELSE IF moving
                   THEN Pt(MulDiv(v.x, Pow95(dt), Unit7), MulDiv(v.y, Pow95(dt), Unit7))
                   ELSE Pt(0, 0)
        panFactor == Unit7 - Pow88(dt)
        zoomFactor == Unit7 - Pow88(dt)
        dx == t1.x - c.x
        dy == t1.y - c.y
        ds == t1.scale - c.scale
        c1 == Tr(c.x + MulDiv(dx, panFactor, Unit7),
                 c.y + MulDiv(dy, panFactor, Unit7),
                 c.scale + MulDiv(ds, zoomFactor, Unit7))
        isStillMoving == \/ Abs(dx) > 100
                         \/ Abs(dy) > 100
                         \/ Abs(ds) > 100
                         \/ Abs(v1.x) > 100
                         \/ Abs(v1.y) > 100
        again == isStillMoving \/ interacting
    IN  [target |-> t1, velocity |-> v1, current |-> IF again THEN c1 ELSE t1,
         again |-> again]

\* updateDom(true): transform written with transition "none"
DomWrite(c, transition) ==
    [x |-> c.x, y |-> c.y, scale |-> c.scale, transition |-> transition,
     shown |-> IF transition = "none" THEN c.scale ELSE dom.shown]

\* a stall threshold of 200 ms
StalledAbove200(dt) == dt > 200000

\* step: the frames it skips (dt > 100)
Stalled(dt) == dt > 100000

DomTick(dt) ==
    /\ engine = "dom"
    /\ raf = "step"
    /\ firstFrame' = FALSE
    /\ last' = Op("tick", Pt(dt, 0))
    /\ IF Stalled(dt)
       THEN UNCHANGED <<target, current, velocity, raf, frames, zoomPan, dirty, dom>>
       ELSE LET s == Step(dt, target, current, velocity, isDragging \/ isPinching)
            IN  /\ target' = s.target
                /\ velocity' = s.velocity
                /\ current' = s.current
                /\ dom' = IF listening THEN DomWrite(s.current, "none") ELSE dom
                /\ raf' = IF s.again THEN "step" ELSE "null"
                /\ frames' = IF s.again THEN frames ELSE frames - 1
                /\ zoomPan' = IF s.again THEN zoomPan
                              ELSE State(s.current, zoomPan.isImmediate)
                /\ dirty' = (dirty \/ ~s.again)
    /\ UNCHANGED <<propVars, gestureVars, rendered, scalePercent>>

\* unmount: the cleanups of the window-listener effect and of the gesture effect
\* remove the listeners; no cleanup cancels the pending frame or touches a ref
DomUnmount ==
    /\ engine = "dom"
    /\ listening
    /\ listening' = FALSE
    /\ last' = Op("unmount", Pt(0, 0))
    /\ UNCHANGED <<engine, initialScale, mermaid, image, aliased, percentState, isLoading,
                   gestureVars, target, current, velocity, raf, frames, firstFrame,
                   zoomPan, dirty, rendered, dom, scalePercent>>

\* a state-sync effect that copies the state into Current also while a frame is
\* pending
SyncsCurrentWhileAnimating == ~zoomPan.isImmediate

\* the state-sync effect replaces currentRef.current and calls updateDom(false)
SyncsCurrent == raf = "null" /\ ~zoomPan.isImmediate

\* React render of the queued state, the api layout effect and the state-sync effect
DomReactFlush ==
    LET st == Tr(zoomPan.translateX, zoomPan.translateY, zoomPan.scale)
        \* render: React rewrites style.transform only when the string changed
        d1 == IF st = rendered THEN dom
              ELSE [dom EXCEPT !.x = st.x, !.y = st.y, !.scale = st.scale,
                               !.shown = IF dom.transition = "none" THEN st.scale ELSE @]
    IN  /\ engine = "dom"
        /\ dirty
        /\ dirty' = FALSE
        /\ rendered' = st
        /\ scalePercent' = RoundPercent(zoomPan.scale)
        /\ target' = IF raf = "null" \/ ~zoomPan.isImmediate THEN st ELSE target
        /\ current' = IF SyncsCurrent THEN st ELSE current
        /\ dom' = IF SyncsCurrent
                  THEN [x |-> st.x, y |-> st.y, scale |-> st.scale,
                        transition |-> Eased, shown |-> d1.shown]
                  ELSE d1
        /\ last' = Op("flush", Pt(0, 0))
        /\ UNCHANGED <<propVars, gestureVars, velocity, raf, frames, firstFrame, zoomPan>>

\* normalized wheel delta: line mode x 40, page mode x 800
WheelDelta(ev) ==
    IF ev.deltaMode = 1 THEN ev.deltaY * 40
    ELSE IF ev.deltaMode = 2 THEN ev.deltaY * 800
    ELSE ev.deltaY

\* a wheel zoom that rescales and leaves the offset as it is
WheelZoomUnanchored(t, scaleFactor, point) ==
    Tr(t.x, t.y, Clamp(MulDiv(t.scale, scaleFactor, Unit7)))

\* the anchored zoom of onWheel: target multiplied by scaleFactor around point
WheelZoom(t, scaleFactor, point) ==
    LET newScale == Clamp(MulDiv(t.scale, scaleFactor, Unit7))
    IN  Tr(point.x - MulDiv(point.x - t.x, newScale, t.scale),
           point.y - MulDiv(point.y - t.y, newScale, t.scale),
           newScale)

DomWheel(ev, point) ==
    /\ engine = "dom"
    /\ ~isLoading
    /\ target' = WheelZoom(target, Exp15(WheelDelta(ev)), point)
    /\ raf' = RafAfterStart
    /\ frames' = FramesAfterStart
    /\ firstFrame' = FirstAfterStart
    /\ last' = OpD("wheel", point, WheelDelta(ev))
    /\ UNCHANGED <<propVars, gestureVars, current, velocity, zoomPan, dirty, rendered,
                   dom, scalePercent>>

\* getTouchDistance: Math.sqrt(dx * dx + dy * dy), pointer positions in whole px,
\* the root taken to 1/10 px
TouchDistance(touches) ==
    IF Len(touches) < 2 THEN 0
    ELSE LET dx == (touches[1].x - touches[2].x) \div 1000
             dy == (touches[1].y - touches[2].y) \div 1000
         IN  100 * ISqrt((dx * dx + dy * dy) * 100)

\* getTouchCenter
TouchCenter(touches) ==
    IF Len(touches) < 2 THEN Pt(0, 0)
    ELSE Pt(MulDiv(touches[1].x + touches[2].x, 1, 2),
            MulDiv(touches[1].y + touches[2].y, 1, 2))

\* onTouchStart; while isLoading is true the gesture effect (975-977) has attached
\* no listener, and the event changes nothing
DomTouchStart(touches) ==
    /\ engine = "dom"
    /\ IF isLoading
       THEN /\ last' = OpD("touchStart", touches[1], Len(touches))
            /\ UNCHANGED <<velocity, isDragging, isPinching, touchStart, lastInteraction,
                           raf, frames, firstFrame>>
       ELSE /\ velocity' = Pt(0, 0)
            /\ IF Len(touches) = 1
               THEN /\ isDragging' = TRUE
                    /\ isPinching' = FALSE
                    /\ touchStart' = [active |-> TRUE, n |-> 1, p0 |-> touches[1],
                                      distance |-> 0, center |-> Pt(0, 0),
                                      scale |-> target.scale, translateX |-> target.x,
                                      translateY |-> target.y]
               ELSE IF Len(touches) = 2
               THEN /\ isDragging' = FALSE
                    /\ isPinching' = TRUE
                    /\ touchStart' = [active |-> TRUE, n |-> 2, p0 |-> touches[1],
                                      distance |-> TouchDistance(touches),
                                      center |-> TouchCenter(touches),
                                      scale |-> target.scale, translateX |-> target.x,
                                      translateY |-> target.y]
               ELSE UNCHANGED <<isDragging, isPinching, touchStart>>
            /\ lastInteraction' = touches[1]
            /\ raf' = RafAfterStart
            /\ frames' = FramesAfterStart
            /\ firstFrame' = FirstAfterStart
            /\ last' = [OpD("touchStart", touches[1], Len(touches)) EXCEPT
                            !.g = IF Len(touches) = 2
                                  THEN [t |-> target, c |-> TouchCenter(touches),
                                        d |-> TouchDistance(touches)]
                                  ELSE @,
                            !.s = IF Len(touches) = 1
                                  THEN [t |-> target, c |-> touches[1], k |-> "touch",
                                        coast |-> InMomentum]
                                  ELSE @]
    /\ UNCHANGED <<propVars, target, current, panStart, targetStart, zoomPan, dirty,
                   rendered, dom, scalePercent>>

\* a pinch that scales the present Target by the ratio to the previous move's
\* finger distance
PinchZoomIncremental(ts, touches) ==
    LET newDist == TouchDistance(touches)
        newCenter == TouchCenter(touches)
        prevDist == IF last.op = "pinchMove" THEN last.d ELSE ts.distance
        newScale == Clamp(MulDiv(target.scale, newDist, prevDist))
        contentX == MulDiv(ts.center.x - ts.translateX, Sc(1), ts.scale)
        contentY == MulDiv(ts.center.y - ts.translateY, Sc(1), ts.scale)
    IN  Tr(newCenter.x - MulDiv(contentX, newScale, Sc(1)),
           newCenter.y - MulDiv(contentY, newScale, Sc(1)),
           newScale)

\* the pinch branch of onTouchMove: the transform it writes to targetRef
PinchZoom(ts, touches) ==
    LET newDist == TouchDistance(touches)
        newCenter == TouchCenter(touches)
        newScale == Clamp(MulDiv(ts.scale, newDist, ts.distance))
        contentX == MulDiv(ts.center.x - ts.translateX, Sc(1), ts.scale)
        contentY == MulDiv(ts.center.y - ts.translateY, Sc(1), ts.scale)
    IN  Tr(newCenter.x - MulDiv(contentX, newScale, Sc(1)),
           newCenter.y - MulDiv(contentY, newScale, Sc(1)),
           newScale)

DomTouchMove(touches) ==
    /\ engine = "dom"
    /\ ~isLoading
    /\ touchStart.active
    /\ last' = IF Len(touches) = 2 /\ touchStart.n = 2 /\ touchStart.distance > 0
                THEN OpD("pinchMove", TouchCenter(touches), TouchDistance(touches))
                ELSE IF Len(touches) = 1 /\ touchStart.n = 1
                THEN Op("touchMove", touches[1])
                ELSE Op("touchIgnored", touches[1])
    /\ IF Len(touches) = 1 /\ touchStart.n = 1
       THEN /\ velocity' = Pt(MulDiv(touches[1].x - lastInteraction.x, 1, 2),
                              MulDiv(touches[1].y - lastInteraction.y, 1, 2))
            /\ target' = [target EXCEPT
                             !.x = touchStart.translateX + (touches[1].x - touchStart.p0.x),
                             !.y = touchStart.translateY + (touches[1].y - touchStart.p0.y)]
            /\ lastInteraction' = touches[1]
       ELSE IF Len(touches) = 2 /\ touchStart.distance > 0
       THEN /\ target' = PinchZoom(touchStart, touches)
            /\ UNCHANGED <<velocity, lastInteraction>>
       ELSE UNCHANGED <<target, velocity, lastInteraction>>
    /\ UNCHANGED <<propVars, current, isDragging, isPinching, panStart, targetStart,
                   touchStart, raf, frames, firstFrame, zoomPan, dirty, rendered, dom,
                   scalePercent>>

\* onTouchEnd (touchend and touchcancel) with `remaining` fingers still down; while
\* isLoading is true no listener is attached and the event changes nothing
DomTouchEnd(remaining) ==
    /\ engine = "dom"
    /\ IF isLoading
       THEN UNCHANGED <<isDragging, isPinching, touchStart>>
       ELSE /\ isDragging' = FALSE
            /\ isPinching' = FALSE
            /\ touchStart' = NoTouch
    /\ last' = OpD("touchEnd", Pt(0, 0), remaining)
    /\ UNCHANGED <<propVars, target, current, velocity, panStart, targetStart,
                   lastInteraction, raf, frames, firstFrame, zoomPan, dirty, rendered, dom,
                   scalePercent>>

\* a mouse-down handler that starts a drag for every button
DomMouseDownAnyButton(point, button) ==
    /\ engine = "dom"
    /\ IF isLoading
       THEN /\ last' = OpD("mouseDown", point, button)
            /\ UNCHANGED <<isDragging, velocity, panStart, targetStart, lastInteraction,
                           raf, frames, firstFrame>>
       ELSE /\ isDragging' = TRUE
            /\ velocity' = Pt(0, 0)
            /\ panStart' = point
            /\ targetStart' = Pt(target.x, target.y)
            /\ lastInteraction' = point
            /\ raf' = RafAfterStart
            /\ frames' = FramesAfterStart
            /\ firstFrame' = FirstAfterStart
            /\ last' = [OpD("mouseDown", point, button) EXCEPT
                            !.s = [t |-> target, c |-> point, k |-> "mouse",
                                   coast |-> InMomentum]]
    /\ UNCHANGED <<propVars, target, current, isPinching, touchStart, zoomPan, dirty,
                   rendered, dom, scalePercent>>

\* handleMouseDown: ignored while loading and for buttons other than left and middle
DomMouseDown(point, button) ==
    /\ engine = "dom"
    /\ IF isLoading \/ button \notin {0, 1}
       THEN /\ last' = OpD("mouseDown", point, button)
            /\ UNCHANGED <<isDragging, velocity, panStart, targetStart, lastInteraction,
                           raf, frames, firstFrame>>
       ELSE /\ isDragging' = TRUE
            /\ velocity' = Pt(0, 0)
            /\ panStart' = point
            /\ targetStart' = Pt(target.x, target.y)
            /\ lastInteraction' = point
            /\ raf' = RafAfterStart
            /\ frames' = FramesAfterStart
            /\ firstFrame' = FirstAfterStart
            /\ last' = [OpD("mouseDown", point, button) EXCEPT
                            !.s = [t |-> target, c |-> point, k |-> "mouse",
                                   coast |-> InMomentum]]
    /\ UNCHANGED <<propVars, target, current, isPinching, touchStart, zoomPan, dirty,
                   rendered, dom, scalePercent>>

\* the parent renders ZoomPan with the other value of the isLoading prop
DomSetLoading ==
    /\ engine = "dom"
    /\ ~dirty
    /\ isLoading' = ~isLoading
    /\ last' = Op("setLoading", Pt(0, 0))
    /\ UNCHANGED <<engine, initialScale, mermaid, image, aliased, percentState, listening,
                   gestureVars, target, current, velocity, raf, frames, firstFrame, zoomPan,
                   dirty, rendered, dom, scalePercent>>

\* a mouse-move handler that adds the movement since the last event to Target
DomMouseMoveIncremental(point, timeAdvanced) ==
    /\ engine = "dom"
    /\ isDragging /\ ~isPinching
    /\ velocity' =
          IF timeAdvanced
          THEN Pt(MulDiv(point.x - (IF lastInteraction.x # 0 THEN lastInteraction.x
                                    ELSE point.x), 1, 2),
                  MulDiv(point.y - (IF lastInteraction.y # 0 THEN lastInteraction.y
                                    ELSE point.y), 1, 2))
          ELSE velocity
    /\ target' = [target EXCEPT !.x = @ + (point.x - lastInteraction.x),
                                !.y = @ + (point.y - lastInteraction.y)]
    /\ lastInteraction' = point
    /\ raf' = RafAfterStart
    /\ frames' = FramesAfterStart
    /\ firstFrame' = FirstAfterStart
    /\ last' = Op("mouseMove", point)
    /\ UNCHANGED <<propVars, current, isDragging, isPinching, panStart, targetStart,
                   touchStart, zoomPan, dirty, rendered, dom, scalePercent>>

\* handleWindowMouseMove; timeAdvanced: performance.now() moved since the last event
DomMouseMove(point, timeAdvanced) ==
    /\ engine = "dom"
    /\ isDragging /\ ~isPinching
    /\ velocity' =
          IF timeAdvanced
          THEN Pt(MulDiv(point.x - (IF lastInteraction.x # 0 THEN lastInteraction.x
                                    ELSE point.x), 1, 2),
                  MulDiv(point.y - (IF lastInteraction.y # 0 THEN lastInteraction.y
                                    ELSE point.y), 1, 2))
          ELSE velocity
    /\ target' = [target EXCEPT !.x = targetStart.x + (point.x - panStart.x),
                                !.y = targetStart.y + (point.y - panStart.y)]
    /\ lastInteraction' = point
    /\ raf' = RafAfterStart
    /\ frames' = FramesAfterStart
    /\ firstFrame' = FirstAfterStart
    /\ last' = Op("mouseMove", point)
    /\ UNCHANGED <<propVars, current, isDragging, isPinching, panStart, targetStart,
                   touchStart, zoomPan, dirty, rendered, dom, scalePercent>>

DomMouseUp ==
    /\ engine = "dom"
    /\ isDragging
    /\ isDragging' = FALSE
    /\ last' = Op("mouseUp", Pt(0, 0))
    /\ UNCHANGED <<propVars, target, current, velocity, isPinching, panStart,
                   targetStart, lastInteraction, touchStart, raf, frames, firstFrame,
                   zoomPan,
                   dirty, rendered, dom, scalePercent>>

----------------------------------------------------------------------------
(* Canvas engine: src/components/zoom-pan.tsx 1186-1719 *)

\* Math.exp(-delta * 0.002) of the registry's onWheel
Exp20(delta) ==
    CASE delta = 0 - 100 -> 12214028
      [] delta = 100 -> 8187308
      [] delta = 120 -> 7866279
      [] delta = 0 - 800 -> 49530324
      [] delta = 800 -> 2018965

\* targetRef.current and currentRef.current being one object, a write through either
\* is seen through both
Alias(t, c) == IF aliased THEN t ELSE c

\* updateImmediate, updateSmooth: cancelAnimationFrame(rafRef.current) when it is
\* set, then requestAnimationFrame
FramesAfterUpdate == (IF raf # "null" THEN frames - 1 ELSE frames) + 1

canvasIdle == <<engine, initialScale, mermaid, velocity, isDragging, isPinching, panStart,
                targetStart, lastInteraction, touchStart, firstFrame, zoomPan, rendered,
                dom, isLoading, listening>>

\* applyZoom: the button zoom around the container center, written into target
CanvasZoom(t, delta) ==
    LET newScale == Clamp(t.scale + delta)
        c == ContainerCenter
    IN  Tr(c.x - MulDiv(c.x - t.x, newScale, t.scale),
           c.y - MulDiv(c.y - t.y, newScale, t.scale),
           newScale)

CanvasApplyZoom(name, delta) ==
    /\ engine = "canvas"
    /\ target' = CanvasZoom(target, delta)
    /\ current' = Alias(target', current)
    /\ raf' = "smooth"
    /\ frames' = FramesAfterUpdate
    /\ last' = Op(name, ContainerCenter)
    /\ UNCHANGED <<canvasIdle, aliased, image, percentState, dirty, scalePercent>>

CanvasZoomIn == CanvasApplyZoom("zoomIn", ZoomStep)

CanvasZoomOut == CanvasApplyZoom("zoomOut", 0 - ZoomStep)

\* the object resetZoom stores in targetRef.current
CanvasResetTransform(t) == Tr(0, 0, initialScale)

CanvasResetZoom ==
    /\ engine = "canvas"
    /\ target' = CanvasResetTransform(target)
    /\ aliased' = FALSE
    /\ raf' = "smooth"
    /\ frames' = FramesAfterUpdate
    /\ last' = Op("resetZoom", Pt(0, 0))
    /\ UNCHANGED <<canvasIdle, current, image, percentState, dirty, scalePercent>>

\* getCenterTransform for an image of the size img on a canvas of the client size cv
CenterTransform(cv, img) ==
    LET scaleX == MulDiv(cv.w, Sc(1), img.w)
        scaleY == MulDiv(cv.h, Sc(1), img.h)
        scale == MulDiv(Min(scaleX, scaleY), 9, 10)
    IN  Tr(MulDiv(cv.w - MulDiv(img.w, scale, Sc(1)), 1, 2),
           MulDiv(cv.h - MulDiv(img.h, scale, Sc(1)), 1, 2),
           scale)

\* the canvas has a client width and a client height above zero
Sized(cv) == cv.w > 0 /\ cv.h > 0

CanvasCenterView ==
    /\ engine = "canvas"
    /\ image.ref # 0
    /\ target' = CenterTransform(image.size, ImageSize(image.ref))
    /\ aliased' = FALSE
    /\ raf' = "smooth"
    /\ frames' = FramesAfterUpdate
    /\ last' = Op("centerView", Pt(0, 0))
    /\ UNCHANGED <<canvasIdle, current, image, percentState, dirty, scalePercent>>

CanvasWheel(ev, point) ==
    LET delta == IF ev.deltaMode = 1 THEN ev.deltaY * 40 ELSE ev.deltaY
        effectiveScale == Clamp(MulDiv(current.scale, Exp15(delta), Unit7))
    IN  /\ engine = "canvas"
        /\ target' = Tr(point.x - MulDiv(point.x - current.x, effectiveScale, current.scale),
                        point.y - MulDiv(point.y - current.y, effectiveScale, current.scale),
                        effectiveScale)
        /\ current' = Alias(target', current)
        /\ raf' = "immediate"
        /\ frames' = FramesAfterUpdate
        /\ last' = Op("wheel", point)
        /\ UNCHANGED <<canvasIdle, aliased, image, percentState, dirty, scalePercent>>

\* what no mouse or touch handler of the canvas engine writes
canvasRest == <<engine, initialScale, mermaid, velocity, lastInteraction, firstFrame, zoomPan,
                rendered, dom, isLoading, listening, image, percentState, dirty,
                scalePercent>>

\* a mouse-down that starts the drag without bringing Target to Current
CanvasMouseDownKeepsTarget(point, button) ==
    /\ engine = "canvas"
    /\ IF button # 0
       THEN /\ last' = OpD("mouseDown", point, button)
            /\ UNCHANGED <<isDragging, panStart, targetStart, raf, frames>>
       ELSE /\ isDragging' = TRUE
            /\ panStart' = point
            /\ targetStart' = Pt(target.x, target.y)
            /\ raf' = "immediate"
            /\ frames' = FramesAfterUpdate
            /\ last' = [OpD("mouseDown", point, button) EXCEPT
                            !.s = [t |-> target, c |-> point, k |-> "mouse",
                                   coast |-> raf = "smooth"]]
    /\ UNCHANGED <<canvasRest, target, aliased, current, isPinching, touchStart>>

\* handleMouseDown: only the left button; Target becomes a copy of Current, and
\* updateImmediate replaces the pending frame
CanvasMouseDown(point, button) ==
    /\ engine = "canvas"
    /\ IF button # 0
       THEN /\ last' = OpD("mouseDown", point, button)
            /\ UNCHANGED <<target, aliased, isDragging, panStart, targetStart, raf, frames>>
       ELSE /\ isDragging' = TRUE
            /\ target' = current
            /\ aliased' = FALSE
            /\ panStart' = point
            /\ targetStart' = Pt(current.x, current.y)
            /\ raf' = "immediate"
            /\ frames' = FramesAfterUpdate
            /\ last' = [OpD("mouseDown", point, button) EXCEPT
                            !.s = [t |-> current, c |-> point, k |-> "mouse",
                                   coast |-> raf = "smooth"]]
    /\ UNCHANGED <<canvasRest, current, isPinching, touchStart>>

\* handleMouseMove on window: the offset written into the Target object
CanvasMouseMove(point) ==
    /\ engine = "canvas"
    /\ isDragging
    /\ target' = [target EXCEPT !.x = targetStart.x + (point.x - panStart.x),
                                !.y = targetStart.y + (point.y - panStart.y)]
    /\ current' = Alias(target', current)
    /\ raf' = "immediate"
    /\ frames' = FramesAfterUpdate
    /\ last' = Op("mouseMove", point)
    /\ UNCHANGED <<canvasRest, aliased, isDragging, isPinching, panStart, targetStart,
                   touchStart>>

\* handleMouseUp on window
CanvasMouseUp ==
    /\ engine = "canvas"
    /\ isDragging' = FALSE
    /\ last' = Op("mouseUp", Pt(0, 0))
    /\ UNCHANGED <<canvasRest, target, current, aliased, raf, frames, isPinching, panStart,
                   targetStart, touchStart>>

\* handleTouchStart: Target becomes a copy of Current, the snapshot is taken from
\* Current, and updateImmediate replaces the pending frame
CanvasTouchStart(touches) ==
    /\ engine = "canvas"
    /\ target' = current
    /\ aliased' = FALSE
    /\ IF Len(touches) = 1
       THEN /\ isDragging' = TRUE
            /\ isPinching' = isPinching
            /\ touchStart' = [active |-> TRUE, n |-> 1, p0 |-> touches[1],
                              distance |-> 0, center |-> Pt(0, 0),
                              scale |-> current.scale, translateX |-> current.x,
                              translateY |-> current.y]
       ELSE IF Len(touches) = 2
       THEN /\ isDragging' = FALSE
            /\ isPinching' = TRUE
            /\ touchStart' = [active |-> TRUE, n |-> 2, p0 |-> touches[1],
                              distance |-> TouchDistance(touches),
                              center |-> TouchCenter(touches),
                              scale |-> current.scale, translateX |-> current.x,
                              translateY |-> current.y]
       ELSE UNCHANGED <<isDragging, isPinching, touchStart>>
    /\ raf' = "immediate"
    /\ frames' = FramesAfterUpdate
    /\ last' = [OpD("touchStart", touches[1], Len(touches)) EXCEPT
                    !.g = IF Len(touches) = 2
                          THEN [t |-> current, c |-> TouchCenter(touches),
                                d |-> TouchDistance(touches)]
                          ELSE @,
                    !.s = IF Len(touches) = 1
                          THEN [t |-> current, c |-> touches[1], k |-> "touch",
                                coast |-> raf = "smooth"]
                          ELSE @]
    /\ UNCHANGED <<canvasRest, current, panStart, targetStart>>

\* the canvas element's onTouchEnd
CanvasTouchEnd ==
    /\ engine = "canvas"
    /\ isDragging' = FALSE
    /\ isPinching' = FALSE
    /\ last' = Op("touchEnd", Pt(0, 0))
    /\ UNCHANGED <<canvasRest, target, current, aliased, raf, frames, panStart, targetStart,
                   touchStart>>

\* one frame of updateSmooth's loop
SmoothLoop(t, c) ==
    LET dist_x == t.x - c.x
        dist_y == t.y - c.y
        dist_s == t.scale - c.scale
        close == Abs(dist_x) < 500 /\ Abs(dist_y) < 500 /\ Abs(dist_s) < 1000
    IN  [current |-> IF close THEN t
                     ELSE Tr(c.x + MulDiv(dist_x, 3, 10), c.y + MulDiv(dist_y, 3, 10),
                             c.scale + MulDiv(dist_s, 3, 10)),
         again |-> ~close]

\* the frame callback of updateImmediate or of updateSmooth
CanvasFrame ==
    /\ engine = "canvas"
    /\ raf # "null"
    /\ last' = Op("tick", Pt(0, 0))
    /\ IF raf = "immediate"
       THEN /\ current' = target
            /\ raf' = "null"
            /\ frames' = frames - 1
       ELSE LET s == SmoothLoop(target, current)
            IN  /\ current' = s.current
                /\ raf' = IF s.again THEN "smooth" ELSE "null"
                /\ frames' = IF s.again THEN frames ELSE frames - 1
    /\ target' = Alias(current', target)
    /\ percentState' = RoundPercent(current'.scale)
    /\ dirty' = (dirty \/ percentState' # percentState)
    /\ UNCHANGED <<canvasIdle, aliased, image, scalePercent>>

\* the image effect after imageSrc has changed to id: an empty imageSrc drops the
\* image and the centering mark, any other starts a load; the loads started
\* before stay outstanding
CanvasSetSrc(id) ==
    /\ engine = "canvas"
    /\ id # image.src
    /\ image' = IF id = 0
                THEN [image EXCEPT !.src = 0, !.ref = 0, !.hasCentered = FALSE]
                ELSE [image EXCEPT !.src = id, !.pending = @ \cup {id}]
    /\ last' = OpD("setSrc", Pt(0, 0), id)
    /\ UNCHANGED <<canvasIdle, target, current, aliased, raf, frames, percentState, dirty,
                   scalePercent>>

\* image.onload of the image id: snap to center when the canvas already has a size
CanvasImageLoad(id) ==
    /\ engine = "canvas"
    /\ id \in image.pending
    /\ image' = [image EXCEPT !.ref = id,
                              !.pending = @ \ {id},
                              !.hasCentered = (Sized(image.size) \/ @)]
    /\ IF Sized(image.size)
       THEN /\ target' = CenterTransform(image.size, ImageSize(id))
            /\ current' = target'
            /\ aliased' = TRUE
       ELSE UNCHANGED <<target, current, aliased>>
    /\ last' = OpD("imageLoad", Pt(0, 0), id)
    /\ UNCHANGED <<canvasIdle, raf, frames, percentState, dirty, scalePercent>>

\* ResizeObserver callback: the canvas takes the observed size cv
CanvasResize(cv) ==
    LET centers == ~image.hasCentered /\ image.ref # 0 /\ Sized(cv)
    IN  /\ engine = "canvas"
        /\ image' = [image EXCEPT !.size = cv,
                                  !.hasCentered = (centers \/ @)]
        /\ IF centers
           THEN /\ target' = CenterTransform(cv, ImageSize(image.ref))
                /\ current' = target'
                /\ aliased' = TRUE
           ELSE UNCHANGED <<target, current, aliased>>
        /\ last' = OpD("resize", Pt(cv.w, cv.h), 0)
        /\ UNCHANGED <<canvasIdle, raf, frames, percentState, dirty, scalePercent>>

\* React render of the queued scalePercent and the effect that rebuilds api
CanvasReactFlush ==
    /\ engine = "canvas"
    /\ dirty
    /\ dirty' = FALSE
    /\ scalePercent' = percentState
    /\ last' = Op("flush", Pt(0, 0))
    /\ UNCHANGED <<canvasIdle, target, current, aliased, raf, frames, image, percentState>>

----------------------------------------------------------------------------
(* Registry ZoomPan: src/registry/mermaidcn/zoom-pan.tsx *)

regIdle == <<engine, initialScale, mermaid, frames, target, current, aliased, isDragging, isPinching,
             panStart, targetStart, lastInteraction, touchStart, firstFrame, rendered,
             dom, percentState, image, scalePercent, isLoading, listening>>

StateTr(z) == Tr(z.translateX, z.translateY, z.scale)

\* applyZoomToPoint's state updater
RegZoomToPoint(prev, delta, point) ==
    LET newScale == Clamp(prev.scale + delta)
    IN  [scale |-> newScale,
         translateX |-> point.x - MulDiv(point.x - prev.translateX, newScale, prev.scale),
         translateY |-> point.y - MulDiv(point.y - prev.translateY, newScale, prev.scale),
         isImmediate |-> FALSE]

\* every registry operation below starts with stopMomentum()
RegApplyZoomToPoint(name, delta) ==
    /\ engine = "registry"
    /\ raf' = "null"
    /\ velocity' = Pt(0, 0)
    /\ zoomPan' = RegZoomToPoint(zoomPan, delta, ContainerCenter)
    /\ dirty' = TRUE
    /\ last' = [Op(name, ContainerCenter) EXCEPT !.pre = StateTr(zoomPan)]
    /\ UNCHANGED regIdle

RegZoomIn == RegApplyZoomToPoint("zoomIn", ZoomStep)

RegZoomOut == RegApplyZoomToPoint("zoomOut", 0 - ZoomStep)

RegResetZoom ==
    /\ engine = "registry"
    /\ raf' = "null"
    /\ velocity' = Pt(0, 0)
    /\ zoomPan' = State(Tr(0, 0, initialScale), FALSE)
    /\ dirty' = TRUE
    /\ last' = [Op("resetZoom", Pt(0, 0)) EXCEPT !.pre = StateTr(zoomPan)]
    /\ UNCHANGED regIdle

\* centerView measures content.scrollWidth / scrollHeight: the natural size
RegCenterView ==
    LET fit == FitTransform(Content.w, Content.h, Sc(1))
    IN  /\ engine = "registry"
        /\ raf' = "null"
        /\ velocity' = Pt(0, 0)
        /\ zoomPan' = State(fit, FALSE)
        /\ dirty' = TRUE
        /\ last' = [Op("centerView", Pt(0, 0)) EXCEPT !.pre = StateTr(zoomPan)]
        /\ UNCHANGED regIdle

RegWheel(ev, point) ==
    /\ engine = "registry"
    /\ raf' = "null"
    /\ velocity' = Pt(0, 0)
    /\ zoomPan' = State(WheelZoom(StateTr(zoomPan), Exp20(WheelDelta(ev)), point), TRUE)
    /\ dirty' = TRUE
    /\ last' = [OpD("wheel", point, WheelDelta(ev)) EXCEPT !.pre = StateTr(zoomPan)]
    /\ UNCHANGED regIdle

\* what no handler of the registry ZoomPan writes
regRest == <<engine, initialScale, mermaid, frames, target, current, aliased, isPinching, lastInteraction,
             firstFrame, dom, percentState, image, scalePercent, isLoading>>

RegOp(name, pt) == [Op(name, pt) EXCEPT !.pre = StateTr(zoomPan)]

\* handleMouseDown: ignored while loading and for buttons other than left and middle
RegMouseDown(point, button) ==
    /\ engine = "registry"
    /\ last' = [RegOp("mouseDown", point) EXCEPT !.d = button]
    /\ IF isLoading \/ button \notin {0, 1}
       THEN UNCHANGED <<velocity, isDragging, panStart, targetStart, raf, zoomPan, dirty>>
       ELSE /\ raf' = "null"
            /\ velocity' = Pt(0, 0)
            /\ isDragging' = TRUE
            /\ panStart' = point
            /\ targetStart' = Pt(rendered.x, rendered.y)
            /\ zoomPan' = [zoomPan EXCEPT !.isImmediate = TRUE]
            /\ dirty' = TRUE
    /\ UNCHANGED <<regRest, touchStart, rendered, listening>>

\* a mouse move that does not mark the state immediate
RegDragStateEased(prev, point) ==
    [prev EXCEPT !.translateX = targetStart.x + (point.x - panStart.x),
                 !.translateY = targetStart.y + (point.y - panStart.y)]

\* handleWindowMouseMove's state updater
RegDragState(prev, point) ==
    [prev EXCEPT !.translateX = targetStart.x + (point.x - panStart.x),
                 !.translateY = targetStart.y + (point.y - panStart.y),
                 !.isImmediate = TRUE]

\* handleWindowMouseMove, attached while the rendered isDragging is true;
\* movement is e.movementX / e.movementY
RegMouseMove(point, movement, timeAdvanced) ==
    /\ engine = "registry"
    /\ listening
    /\ velocity' = IF timeAdvanced THEN movement ELSE velocity
    /\ zoomPan' = RegDragState(zoomPan, point)
    /\ dirty' = TRUE
    /\ last' = RegOp("mouseMove", point)
    /\ UNCHANGED <<regRest, isDragging, panStart, targetStart, touchStart, raf, rendered,
                   listening>>

\* handleWindowMouseUp: setIsDragging(false); startMomentum()
RegMouseUp ==
    /\ engine = "registry"
    /\ listening
    /\ isDragging' = FALSE
    /\ raf' = "momentum"
    /\ dirty' = TRUE
    /\ last' = RegOp("mouseUp", Pt(0, 0))
    /\ UNCHANGED <<regRest, velocity, panStart, targetStart, touchStart, zoomPan, rendered,
                   listening>>

\* the frame callback of startMomentum; when it returns early rafRef keeps the id
\* of the frame that has run
RegMomentumStep ==
    /\ engine = "registry"
    /\ raf = "momentum"
    /\ IF Abs(velocity.x) < 50 /\ Abs(velocity.y) < 50
       THEN /\ raf' = "ran"
            /\ last' = RegOp("momentumEnd", Pt(0, 0))
            /\ UNCHANGED <<velocity, zoomPan, dirty>>
       ELSE /\ zoomPan' = [zoomPan EXCEPT !.translateX = @ + velocity.x,
                                          !.translateY = @ + velocity.y,
                                          !.isImmediate = TRUE]
            /\ velocity' = Pt(MulDiv(velocity.x, 95, 100), MulDiv(velocity.y, 95, 100))
            /\ raf' = "momentum"
            /\ dirty' = TRUE
            /\ last' = RegOp("momentum", velocity)
    /\ UNCHANGED <<regRest, isDragging, panStart, targetStart, touchStart, rendered,
                   listening>>

\* onTouchStart: stopMomentum(), snapshot of zoomPanRef.current, immediate mode
RegTouchStart(touches) ==
    /\ engine = "registry"
    /\ ~isLoading
    /\ raf' = "null"
    /\ velocity' = Pt(0, 0)
    /\ touchStart' =
          IF Len(touches) = 1
          THEN [active |-> TRUE, n |-> 1, p0 |-> touches[1], distance |-> 0,
                center |-> Pt(0, 0), scale |-> rendered.scale,
                translateX |-> rendered.x, translateY |-> rendered.y]
          ELSE IF Len(touches) = 2
          THEN [active |-> TRUE, n |-> 2, p0 |-> touches[1],
                distance |-> TouchDistance(touches), center |-> TouchCenter(touches),
                scale |-> rendered.scale, translateX |-> rendered.x,
                translateY |-> rendered.y]
          ELSE touchStart
    /\ zoomPan' = [zoomPan EXCEPT !.isImmediate = TRUE]
    /\ dirty' = TRUE
    /\ last' = RegOp("touchStart", touches[1])
    /\ UNCHANGED <<regRest, isDragging, panStart, targetStart, rendered, listening>>

\* onTouchMove: pan with one finger, pinch with two, both from the snapshot
RegTouchMove(touches) ==
    /\ engine = "registry"
    /\ ~isLoading
    /\ touchStart.active
    /\ IF Len(touches) = 1 /\ touchStart.n = 1
       THEN /\ zoomPan' = State(Tr(touchStart.translateX + (touches[1].x - touchStart.p0.x),
                                   touchStart.translateY + (touches[1].y - touchStart.p0.y),
                                   touchStart.scale), TRUE)
            /\ dirty' = TRUE
            /\ last' = RegOp("touchMove", touches[1])
       ELSE IF Len(touches) = 2 /\ touchStart.distance > 0
       THEN /\ zoomPan' = State(PinchZoom(touchStart, touches), TRUE)
            /\ dirty' = TRUE
            /\ last' = RegOp("pinchMove", TouchCenter(touches))
       ELSE /\ last' = RegOp("touchIgnored", touches[1])
            /\ UNCHANGED <<zoomPan, dirty>>
    /\ UNCHANGED <<regRest, velocity, isDragging, panStart, targetStart, touchStart, raf,
                   rendered, listening>>

\* onTouchEnd
RegTouchEnd ==
    /\ engine = "registry"
    /\ ~isLoading
    /\ touchStart' = NoTouch
    /\ last' = RegOp("touchEnd", Pt(0, 0))
    /\ UNCHANGED <<regRest, velocity, isDragging, panStart, targetStart, raf, zoomPan,
                   dirty, rendered, listening>>

\* React render: the controls get scalePercent = Math.round(zoomPan.scale * 100);
\* the effects copy the state into zoomPanRef and attach the window listeners
\* while isDragging
RegReactFlush ==
    /\ engine = "registry"
    /\ dirty
    /\ dirty' = FALSE
    /\ scalePercent' = RoundPercent(zoomPan.scale)
    /\ rendered' = StateTr(zoomPan)
    /\ listening' = isDragging
    /\ last' = [Op("flush", Pt(0, 0)) EXCEPT !.pre = StateTr(zoomPan)]
    /\ UNCHANGED <<engine, initialScale, mermaid, frames, target, current, aliased, velocity, isDragging,
                   isPinching, panStart, targetStart, lastInteraction, touchStart, raf,
                   firstFrame, zoomPan, dom, percentState, image, isLoading>>

----------------------------------------------------------------------------
(* The legacy DOM engine: the first ZoomPan of src/components/zoom-pan.tsx.   *)
(* Gestures write targetRef, buttons write the React state, and the effect on *)
(* the state copies it into targetRef                                         *)

\* onWheel: the anchored zoom written into targetRef.current, startAnimation
LegacyWheel(ev, point) ==
    /\ engine = "legacy"
    /\ ~isLoading
    /\ target' = WheelZoom(target, Exp20(WheelDelta(ev)), point)
    /\ raf' = RafAfterStart
    /\ frames' = FramesAfterStart
    /\ last' = OpD("wheel", point, WheelDelta(ev))
    /\ UNCHANGED <<propVars, gestureVars, firstFrame, scalePercent, current, velocity,
                   zoomPan, dirty, rendered, dom>>

\* applyZoomToPoint: prevScale, prevX and prevY are the zoomPan of the render
\* that created the callback; the result goes to setZoomPan
LegacyApplyZoomToPoint(name, delta) ==
    /\ engine = "legacy"
    /\ zoomPan' = State(ZoomToPoint(rendered, delta, ContainerCenter), FALSE)
    /\ dirty' = TRUE
    /\ last' = Op(name, ContainerCenter)
    /\ UNCHANGED <<propVars, gestureVars, firstFrame, scalePercent, target, current,
                   velocity, raf, frames, rendered, dom>>

\* step: momentum with friction 0.92, lerp by 0.1 (pan) and 0.06 (zoom), stop test
LegacyTick ==
    LET interacting == isDragging \/ isPinching
        moving == Abs(velocity.x) > 10 \/ Abs(velocity.y) > 10
        t1 == IF ~interacting /\ moving
              THEN [target EXCEPT !.x = @ + velocity.x, !.y = @ + velocity.y]
              ELSE target
        v1 == IF interacting THEN velocity
              ELSE IF moving
                   THEN Pt(MulDiv(velocity.x, 92, 100), MulDiv(velocity.y, 92, 100))
                   ELSE Pt(0, 0)
        dx == t1.x - current.x
        dy == t1.y - current.y
        ds == t1.scale - current.scale
        c1 == Tr(current.x + MulDiv(dx, 1, 10), current.y + MulDiv(dy, 1, 10),
                 current.scale + MulDiv(ds, 6, 100))
        again == \/ Abs(dx) > 100
                 \/ Abs(dy) > 100
                 \/ Abs(ds) > 1000
                 \/ Abs(v1.x) > 100
                 \/ Abs(v1.y) > 100
                 \/ interacting
    IN  /\ engine = "legacy"
        /\ raf = "step"
        /\ target' = t1
        /\ velocity' = v1
        /\ current' = c1
        /\ dom' = DomWrite(c1, "none")
        /\ raf' = IF again THEN "step" ELSE "null"
        /\ frames' = IF again THEN frames ELSE frames - 1
        /\ zoomPan' = IF again THEN zoomPan ELSE State(c1, zoomPan.isImmediate)
        /\ dirty' = (dirty \/ ~again)
        /\ last' = Op("tick", Pt(0, 0))
        /\ UNCHANGED <<propVars, gestureVars, firstFrame, scalePercent, rendered>>

\* React render of the queued state and the effect on zoomPan: targetRef is
\* replaced by the state; isImmediate starts the loop, otherwise Current follows
\* and updateDom(false) writes it with the eased transition
LegacyReactFlush ==
    LET st == StateTr(zoomPan)
    IN  /\ engine = "legacy"
        /\ dirty
        /\ dirty' = FALSE
        /\ rendered' = st
        /\ scalePercent' = RoundPercent(zoomPan.scale)
        /\ target' = st
        /\ raf' = IF zoomPan.isImmediate THEN RafAfterStart ELSE raf
        /\ frames' = IF zoomPan.isImmediate THEN FramesAfterStart ELSE frames
        /\ current' = IF zoomPan.isImmediate THEN current ELSE st
        /\ dom' = IF zoomPan.isImmediate THEN dom
                  ELSE [x |-> st.x, y |-> st.y, scale |-> st.scale,
                        transition |-> Eased, shown |-> dom.shown]
        /\ last' = Op("flush", Pt(0, 0))
        /\ UNCHANGED <<propVars, gestureVars, firstFrame, velocity, zoomPan>>

----------------------------------------------------------------------------
(* The Mermaid renderer: useMermaid / useDebounce of src/components/mermaid.tsx *)
(* ("mermaid") and the render effect of src/registry/mermaidcn/mermaid.tsx      *)
(* ("mermaidcn")                                                                *)

\* what the renderer leaves alone: all of the ZoomPan state
mermaidRest == <<engine, initialScale, target, current, aliased, velocity, isDragging,
                 isPinching, panStart, targetStart, lastInteraction, touchStart, raf,
                 frames, firstFrame, zoomPan, dirty, rendered, dom, percentState,
                 scalePercent, image, isLoading, listening>>

\* one run of the render effect on m, the cleanup of the previous run first:
\* every render of the previous run is cancelled; a blank chart shows idle, any
\* other starts render() (useMermaid) or arms the 300 ms timer (registry)
MermaidEffect(m) ==
    LET old == {[f EXCEPT !.cancelled = TRUE] : f \in m.flights}
        chart == IF engine = "mermaid" THEN m.debounced ELSE m.chart
    IN  IF chart = 0
        THEN [m EXCEPT !.flights = old, !.status = "idle", !.svg = 0, !.svgConfig = 0,
                       !.error = 0,
                       !.timer = IF engine = "mermaid" THEN @ ELSE 0 - 1]
        ELSE IF engine = "mermaid"
        THEN [m EXCEPT !.flights = old \cup {[id |-> m.nextId, chart |-> chart,
                                               config |-> m.config,
                                               cancelled |-> FALSE,
                                               stage |-> "import"]},
                       !.nextId = @ + 1, !.status = "loading", !.error = 0]
        ELSE [m EXCEPT !.flights = old, !.timer = chart]

\* the parent re-renders the component with chart c and config k
MermaidSetProps(c, k) ==
    LET m1 == [mermaid EXCEPT !.chart = c, !.config = k]
    IN  /\ engine \in {"mermaid", "mermaidcn"}
        /\ <<c, k>> # <<mermaid.chart, mermaid.config>>
        /\ mermaid' =
              IF engine = "mermaidcn" THEN MermaidEffect(m1)
              ELSE LET \* useDebounce: a new value clears the timer and arms a new one
                       m2 == IF c # mermaid.chart THEN [m1 EXCEPT !.timer = c] ELSE m1
                   IN  IF k # mermaid.config THEN MermaidEffect(m2) ELSE m2
        /\ last' = Op("props", Pt(c, k))
        /\ UNCHANGED mermaidRest

\* the pending timeout fires: useDebounce sets debouncedValue and the effect runs
\* again if it changed; the registry's timer calls renderDiagram
MermaidTimer ==
    LET m1 == [mermaid EXCEPT !.timer = 0 - 1]
    IN  /\ engine \in {"mermaid", "mermaidcn"}
        /\ mermaid.timer # 0 - 1
        /\ mermaid' =
              IF engine = "mermaid"
              THEN IF mermaid.timer = mermaid.debounced THEN m1
                   ELSE MermaidEffect([m1 EXCEPT !.debounced = mermaid.timer])
              ELSE [m1 EXCEPT !.flights = @ \cup {[id |-> m1.nextId, chart |-> m1.chart,
                                                    config |-> m1.config,
                                                    cancelled |-> FALSE,
                                                    stage |-> "import"]},
                              !.nextId = @ + 1, !.status = "loading", !.error = 0]
        /\ last' = Op("timer", Pt(mermaid.timer, 0))
        /\ UNCHANGED mermaidRest

\* the promise render number id awaits settles: the import resolves (useMermaid
\* returns if cancelled, the registry goes on to mermaid.render), or
\* mermaid.render resolves or rejects and the outcome is applied unless
\* cancelled; the callbacks follow a success or an error
MermaidResolves(id) ==
    \E f \in mermaid.flights :
        LET rest == mermaid.flights \ {f}
            m1 == [mermaid EXCEPT !.flights = rest]
        IN  /\ engine \in {"mermaid", "mermaidcn"}
            /\ f.id = id
            /\ mermaid' =
                  IF f.stage = "import"
                  THEN IF engine = "mermaid" /\ f.cancelled THEN m1
                       ELSE [m1 EXCEPT !.flights = rest \cup {[f EXCEPT !.stage = "render"]}]
                  ELSE IF f.cancelled THEN m1
                  ELSE IF f.chart = 2
                  THEN [m1 EXCEPT !.error = f.chart, !.status = "error",
                                  !.svg = IF engine = "mermaid" THEN 0 ELSE @,
                                  !.svgConfig = IF engine = "mermaid" THEN 0 ELSE @,
                                  !.calls = @ + 1]
                  ELSE [m1 EXCEPT !.svg = f.chart, !.svgConfig = f.config,
                                  !.status = "success",
                                  !.error = IF engine = "mermaid" THEN @ ELSE 0,
                                  !.calls = @ + 1]
            /\ last' = OpD("resolved", Pt(f.chart, f.config), IF f.cancelled THEN 1 ELSE 0)
            /\ UNCHANGED mermaidRest

----------------------------------------------------------------------------
(* The events of the environment *)

Center == Pt(Px(400), Px(300))
Corner == Pt(Px(200), Px(150))

WheelEvents == {[deltaY |-> 0 - 100, deltaMode |-> 0], [deltaY |-> 1, deltaMode |-> 2],
                [deltaY |-> 0 - 1, deltaMode |-> 2]}
CanvasWheelEvents == {[deltaY |-> 0 - 100, deltaMode |-> 0], [deltaY |-> 3, deltaMode |-> 1]}

ZoomIn == DomZoomIn \/ CanvasZoomIn \/ RegZoomIn
ZoomOut == DomZoomOut \/ CanvasZoomOut \/ RegZoomOut
ResetZoom == DomResetZoom \/ CanvasResetZoom \/ RegResetZoom
CenterView == DomCenterView \/ CanvasCenterView \/ RegCenterView
Wheel ==
    \/ \E ev \in WheelEvents : DomWheel(ev, Corner) \/ RegWheel(ev, Corner)
    \/ \E ev \in CanvasWheelEvents : CanvasWheel(ev, Corner)
Frame == (\E dt \in (IF firstFrame THEN FirstDts ELSE Dts) : DomTick(dt)) \/ CanvasFrame
ImageEvent == CanvasImageLoad(1) \/ CanvasResize(Container)
ReactFlush == DomReactFlush \/ CanvasReactFlush \/ RegReactFlush

Init == \E e \in {"dom", "canvas", "registry"} : InitEngine(e)

Step1(A) == budget.ops < MaxSteps /\ A /\ budget' = [budget EXCEPT !.ops = @ + 1]

Next ==
    \/ Step1(ZoomIn)
    \/ Step1(ZoomOut)
    \/ Step1(ResetZoom)
    \/ Step1(CenterView)
    \/ Step1(Wheel)
    \/ Step1(Frame)
    \/ Step1(ImageEvent)
    \/ ReactFlush /\ UNCHANGED budget

Spec == Init /\ [][Next]_vars

----------------------------------------------------------------------------
(* Anchored zooms of the DOM engine: wheel, pinch, buttons *)

PinchStart == <<Pt(Px(300), Px(300)), Pt(Px(500), Px(300))>>
\* fingers spread to three times the distance with the midpoint moved, fingers
\* closed to a twentieth of the distance, fingers moved without changing distance
PinchMoves == {<<Pt(Px(100), Px(200)), Pt(Px(700), Px(200))>>,
               <<Pt(Px(395), Px(300)), Pt(Px(405), Px(300))>>,
               <<Pt(Px(350), Px(200)), Pt(Px(350), Px(400))>>}

AnchorStep(A) ==
    budget.ops < MaxAnchorSteps /\ A /\ budget' = [budget EXCEPT !.ops = @ + 1]

NextAnchor ==
    \/ AnchorStep(\E ev \in WheelEvents : DomWheel(ev, Corner))
    \/ AnchorStep(DomZoomIn)
    \/ AnchorStep(DomZoomOut)
    \/ AnchorStep(DomTouchStart(PinchStart))
    \/ AnchorStep(\E touches \in PinchMoves : DomTouchMove(touches))
    \/ AnchorStep(DomTouchEnd(0))
    \/ AnchorStep(\E dt \in (IF firstFrame THEN FirstDts ELSE Dts) : DomTick(dt))
    \/ DomReactFlush /\ UNCHANGED budget

SpecAnchor == InitEngine("dom") /\ [][NextAnchor]_vars

----------------------------------------------------------------------------
(* Pinches of the DOM engine that start with the fingers 100 px apart *)

Pinch100 == <<Pt(Px(350), Px(300)), Pt(Px(450), Px(300))>>
\* fingers 200 px apart around the same midpoint, 200 px apart on a diagonal with
\* the midpoint moved, 600 px apart, 5 px apart
Pinch100Moves == {<<Pt(Px(300), Px(300)), Pt(Px(500), Px(300))>>,
                  <<Pt(Px(340), Px(220)), Pt(Px(460), Px(380))>>,
                  <<Pt(Px(100), Px(200)), Pt(Px(700), Px(200))>>,
                  <<Pt(Px(398), Px(300)), Pt(Px(403), Px(300))>>}

PinchStep(A) ==
    budget.ops < MaxPinchSteps /\ A /\ budget' = [budget EXCEPT !.ops = @ + 1]

NextPinch ==
    \/ PinchStep(DomWheel([deltaY |-> 0 - 100, deltaMode |-> 0], Corner))
    \/ PinchStep(DomTouchStart(Pinch100))
    \/ PinchStep(\E touches \in Pinch100Moves : DomTouchMove(touches))
    \/ PinchStep(DomTouchEnd(0))
    \/ PinchStep(\E dt \in (IF firstFrame THEN FirstDts ELSE Dts) : DomTick(dt))
    \/ DomReactFlush /\ UNCHANGED budget

SpecPinch == InitEngine("dom") /\ [][NextPinch]_vars

----------------------------------------------------------------------------
(* The registry ZoomPan: buttons, wheel, mouse drag, momentum, touch *)

OneTouch == <<Pt(Px(400), Px(300))>>
OneTouchMoved == <<Pt(Px(430), Px(310))>>

RegStep(A) ==
    budget.ops < MaxRegSteps /\ A /\ budget' = [budget EXCEPT !.ops = @ + 1]

NextRegistry ==
    \/ RegStep(RegZoomIn)
    \/ RegStep(RegZoomOut)
    \/ RegStep(RegResetZoom)
    \/ RegStep(RegCenterView)
    \/ RegStep(RegWheel([deltaY |-> 0 - 100, deltaMode |-> 0], Corner))
    \/ RegStep(\E button \in {0, 2} : RegMouseDown(Center, button))
    \/ RegStep(RegMouseMove(Pt(panStart.x + Px(30), panStart.y), Pt(Px(30), 0), TRUE))
    \/ RegStep(RegMouseUp)
    \/ RegStep(RegMomentumStep)
    \/ RegStep(\E touches \in {OneTouch, PinchStart} : RegTouchStart(touches))
    \/ RegStep(\E touches \in {OneTouchMoved} \cup PinchMoves : RegTouchMove(touches))
    \/ RegStep(RegTouchEnd)
    \/ RegReactFlush /\ UNCHANGED budget

SpecRegistry == InitEngine("registry") /\ [][NextRegistry]_vars

----------------------------------------------------------------------------
(* The DOM engine under mouse drags, touch drags, pinches and the isLoading prop *)

\* pointer positions of the move events of a drag
DragPoints == {Pt(Px(420), Px(300)), Pt(Px(440), Px(310))}

\* the pressed button of a mouse-down: left, middle, right
Buttons == {0, 1, 2}

GestureStep(A) ==
    budget.ops < MaxGestureSteps /\ A /\ budget' = [budget EXCEPT !.ops = @ + 1]

\* frames arrive 16.7 ms apart or stalled, the first of a loop also early
NextGesture ==
    \/ GestureStep(\E button \in Buttons : DomMouseDown(Center, button))
    \/ GestureStep(\E point \in DragPoints : DomMouseMove(point, TRUE))
    \/ GestureStep(DomMouseUp)
    \/ GestureStep(\E touches \in {OneTouch, Pinch100} : DomTouchStart(touches))
    \/ GestureStep(DomTouchMove(OneTouchMoved))
    \/ GestureStep(DomTouchMove(PinchStart))
    \/ GestureStep(\E remaining \in {0, 1} : DomTouchEnd(remaining))
    \/ GestureStep(DomWheel([deltaY |-> 0 - 100, deltaMode |-> 0], Corner))
    \/ GestureStep(\E dt \in (IF firstFrame THEN FirstDts ELSE Dts) \ {83335} : DomTick(dt))
    \/ GestureStep(DomSetLoading)
    \/ DomReactFlush /\ UNCHANGED budget

SpecGesture == InitEngine("dom") /\ [][NextGesture]_vars

----------------------------------------------------------------------------
(* Button calls from a settled DOM engine, frames 16 ms apart *)

Settled == raf = "null" /\ ~isDragging /\ ~isPinching /\ ~dirty

SettleOp(A) ==
    /\ Settled
    /\ velocity = Pt(0, 0)
    /\ budget.ops < MaxSettleOps
    /\ A
    /\ budget' = [budget EXCEPT !.ops = @ + 1, !.ticks = 0]

NextSettle ==
    \/ SettleOp(DomZoomIn)
    \/ SettleOp(DomZoomOut)
    \/ SettleOp(DomResetZoom)
    \/ SettleOp(DomCenterView)
    \/ DomTick(16000) /\ budget' = [budget EXCEPT !.ticks = @ + 1]
    \/ DomReactFlush /\ UNCHANGED budget

SpecSettle == InitEngine("dom") /\ [][NextSettle]_vars

----------------------------------------------------------------------------
(* The DOM loop running to a halt after wheel zooms, drags and pinches: frames *)
(* at timeScale 1; an input arrives before the second frame after the previous *)
(* input, or after the loop has halted                                         *)

\* the DOM engine with the default initialScale
InitCoast == InitEngine("dom") /\ initialScale = DefaultInitialScale

HaltOp(A) ==
    /\ budget.ops < MaxHaltOps
    /\ budget.ticks <= 1 \/ raf = "null"
    /\ A
    /\ budget' = [budget EXCEPT !.ops = @ + 1, !.ticks = 0]

\* React renders a queued update before the browser runs the next frame
HaltFrame ==
    /\ ~dirty
    /\ DomTick(16667)
    /\ budget' = [budget EXCEPT !.ticks = IF @ < 2 THEN @ + 1 ELSE @]

NextHalt ==
    \/ HaltOp(DomWheel([deltaY |-> 0 - 100, deltaMode |-> 0], Corner))
    \/ HaltOp(DomMouseDown(Center, 0))
    \/ HaltOp(DomMouseMove(Pt(lastInteraction.x + Px(20), lastInteraction.y), TRUE))
    \/ HaltOp(DomMouseUp)
    \/ HaltOp(DomTouchStart(Pinch100))
    \/ HaltOp(DomTouchMove(PinchStart))
    \/ HaltOp(DomTouchEnd(0))
    \/ HaltFrame
    \/ DomReactFlush /\ UNCHANGED budget

SpecHalt == InitCoast /\ [][NextHalt]_vars

----------------------------------------------------------------------------
(* A mouse drag of the DOM engine released at velocity (10, 0), frames at       *)
(* timeScale 1, and at most one resetZoom() after the release                  *)

CoastDown ==
    /\ budget.ops = 0
    /\ ~budget.released
    /\ DomMouseDown(Center, 0)
    /\ budget' = [budget EXCEPT !.ops = 1]

CoastMove ==
    /\ budget.ops <= MaxDragSteps
    /\ DomMouseMove(Pt(lastInteraction.x + Px(20), lastInteraction.y), TRUE)
    /\ budget' = [budget EXCEPT !.ops = @ + 1]

CoastDragFrame ==
    /\ isDragging
    /\ budget.ops <= MaxDragSteps
    /\ DomTick(16667)
    /\ budget' = [budget EXCEPT !.ops = @ + 1]

CoastUp ==
    /\ velocity = Pt(Px(10), 0)
    /\ DomMouseUp
    /\ budget' = [budget EXCEPT !.released = TRUE]

\* React renders a queued update before the browser runs the next frame
CoastFrame ==
    /\ budget.released
    /\ ~dirty
    /\ DomTick(16667)
    /\ budget' = [budget EXCEPT !.ticks = @ + 1]

CoastReset ==
    /\ budget.released
    /\ ~budget.reset
    /\ DomResetZoom
    /\ budget' = [budget EXCEPT !.reset = TRUE]

NextCoast ==
    \/ CoastDown
    \/ CoastMove
    \/ CoastDragFrame
    \/ CoastUp
    \/ CoastFrame
    \/ CoastReset
    \/ DomReactFlush /\ UNCHANGED budget

SpecCoast == InitCoast /\ [][NextCoast]_vars

----------------------------------------------------------------------------
(* The canvas engine under imageSrc changes, image loads, resizes and gestures *)

\* the sizes a ResizeObserver callback reports: a hidden container, the container,
\* the container at half its width and height
Zero == [w |-> 0, h |-> 0]
CanvasSizes == {Zero, Container, [w |-> Px(400), h |-> Px(300)]}

\* the values of the imageSrc prop: empty, the diagram, the icon
ImageSrcs == {0, 1, 2}

\* mounted with imageSrc naming the diagram, in a container that is laid out
InitImage == InitEngine("canvas") /\ initialScale = DefaultInitialScale

ImageStep(A) ==
    budget.ops < MaxImageSteps /\ A /\ budget' = [budget EXCEPT !.ops = @ + 1]

NextImage ==
    \/ ImageStep(\E id \in ImageSrcs : CanvasSetSrc(id))
    \/ ImageStep(\E id \in ImageSrcs : CanvasImageLoad(id))
    \/ ImageStep(\E cv \in CanvasSizes : CanvasResize(cv))
    \/ ImageStep(CanvasCenterView)
    \/ ImageStep(CanvasResetZoom)
    \/ ImageStep(\E button \in Buttons : CanvasMouseDown(Center, button))
    \/ ImageStep(\E point \in DragPoints : CanvasMouseMove(point))
    \/ ImageStep(CanvasMouseUp)
    \/ ImageStep(\E touches \in {OneTouch, Pinch100} : CanvasTouchStart(touches))
    \/ ImageStep(CanvasTouchEnd)
    \/ ImageStep(CanvasFrame)
    \/ CanvasReactFlush /\ UNCHANGED budget

SpecImage == InitImage /\ [][NextImage]_vars

----------------------------------------------------------------------------
(* The DOM engine unmounted at any moment: the browser keeps running the frames *)
(* that were requested                                                          *)

\* an event of the mounted component
UnmountOp(A) ==
    /\ listening
    /\ budget.ops < MaxUnmountOps
    /\ A
    /\ budget' = [budget EXCEPT !.ops = @ + 1]

\* nothing cancels the frames of the unmounted component: the browser runs the
\* pending callback after a stall of 150 ms or of 200 ms, or 16.667 ms after the
\* previous frame
AfterUnmountFrame ==
    /\ ~listening
    /\ \E k \in 1..3 : DomTick(<<150000, 200000, 16667>>[k])
    /\ UNCHANGED budget

NextUnmount ==
    \/ UnmountOp(DomWheel([deltaY |-> 0 - 100, deltaMode |-> 0], Corner))
    \/ UnmountOp(DomMouseDown(Center, 0))
    \/ UnmountOp(\E point \in DragPoints : DomMouseMove(point, TRUE))
    \/ UnmountOp(DomMouseUp)
    \/ UnmountOp(\E k \in 1..3 : DomTick(<<150000, 200000, 16667>>[k]))
    \/ DomUnmount /\ UNCHANGED budget
    \/ AfterUnmountFrame
    \/ listening /\ DomReactFlush /\ UNCHANGED budget

SpecUnmount == InitCoast /\ [][NextUnmount]_vars /\ WF_vars(AfterUnmountFrame)

----------------------------------------------------------------------------
(* The legacy DOM engine under wheel zooms and button zooms *)

LegacyStep(A) ==
    budget.ops < MaxLegacySteps /\ A /\ budget' = [budget EXCEPT !.ops = @ + 1]

NextLegacy ==
    \/ LegacyStep(\E ev \in WheelEvents : LegacyWheel(ev, Corner))
    \/ LegacyStep(LegacyApplyZoomToPoint("zoomIn", ZoomStep))
    \/ LegacyStep(LegacyApplyZoomToPoint("zoomOut", 0 - ZoomStep))
    \/ LegacyStep(LegacyTick)
    \/ LegacyReactFlush /\ UNCHANGED budget

SpecLegacy == InitEngine("legacy") /\ [][NextLegacy]_vars

----------------------------------------------------------------------------
(* The Mermaid renderer under changes of chart and config, timers and renders *)
(* completing in any order                                                     *)

NextMermaid ==
    \/ /\ budget.ops < MaxMermaidSteps
       /\ \E c \in 0..3, k \in 1..2 : MermaidSetProps(c, k)
       /\ budget' = [budget EXCEPT !.ops = @ + 1]
    \/ MermaidTimer /\ UNCHANGED budget
    \/ (\E id \in 1..(MaxMermaidSteps + 2) : MermaidResolves(id)) /\ UNCHANGED budget

SpecMermaid ==
    (\E e \in {"mermaid", "mermaidcn"} : InitEngine(e)) /\ [][NextMermaid]_vars

----------------------------------------------------------------------------
(* Claims checked under Spec *)

TargetTr == IF engine = "registry" THEN StateTr(zoomPan) ELSE target
Near(a, b, tol) == Abs(a - b) <= tol
NearTr(a, b, tol) == Near(a.x, b.x, tol) /\ Near(a.y, b.y, tol) /\ Near(a.scale, b.scale, tol)

\* C1: after every zoomIn() or zoomOut() call, in each of the three engines and
\* whatever ticks, renders or other events came before it, the Target scale lies
\* in [minScale, maxScale].
C1_ZoomStaysInRange ==
    last.op \in {"zoomIn", "zoomOut"} => InRange(TargetTr.scale)

\* a zoomOut() whose step would have left the range, held at minScale
C1_Witness ==
    /\ last.op = "zoomOut"
    /\ last.pre.scale - ZoomStep < MinScale
    /\ TargetTr.scale = MinScale

\* C2: in the DOM engine Target.scale and Current.scale lie in [minScale, maxScale]
\* in every reachable state.
C2_ScalesInRange ==
    engine = "dom" => InRange(target.scale) /\ InRange(current.scale)

\* C7: centerView() in the DOM engine sets Target to the fit-to-view transform of
\* the content's natural size, clamp(min((cw - 40) / w, (ch - 40) / h)) with the
\* content centered, in whatever state it is invoked (up to the rounding of the
\* measurements).
C7_CenterViewFitsNaturalSize ==
    (engine = "dom" /\ last.op = "centerView")
        => NearTr(target, FitTransform(Content.w, Content.h, Sc(1)), 50)

\* C8: in the DOM engine zoomIn() steps from the live Target of the moment of the
\* call: Target.scale becomes clamp(live Target.scale + zoomStep), also when the
\* committed React state lags behind Target (a wheel event or an earlier zoomIn()
\* not yet rendered).
C8_ZoomInReadsLiveTarget ==
    (engine = "dom" /\ last.op = "zoomIn")
        => target.scale = Clamp(last.pre.scale + ZoomStep)

\* a zoomIn() that found Target ahead of the rendered state and stepped from Target
C8_Witness ==
    /\ engine = "dom"
    /\ last.op = "zoomIn"
    /\ last.before \in {"wheel", "zoomIn"}
    /\ last.pre.scale # rendered.scale
    /\ target.scale = last.pre.scale + ZoomStep
    /\ target.scale # rendered.scale + ZoomStep

\* C9: whenever the engine is settled (no frame pending, no gesture, React updates
\* flushed) the scalePercent handed to the controls equals round(100 x
\* Current.scale), in the DOM engine and in the canvas engine.
C9_PercentMatchesCurrent ==
    (engine \in {"dom", "canvas"} /\ Settled)
        => scalePercent = RoundPercent(current.scale)

\* C10: a resetZoom() that directly follows a resetZoom() leaves Target as the
\* first call left it, {scale: initialScale, offsetX: 0, offsetY: 0}.
C10_ResetIdempotent ==
    (engine \in {"dom", "canvas"} /\ last.op = "resetZoom" /\ last.before = "resetZoom")
        => target = last.pre /\ target = Tr(0, 0, initialScale)

\* two resets in a row, the first of which had moved Target
C10_Witness ==
    /\ engine \in {"dom", "canvas"}
    /\ last.op = "resetZoom"
    /\ last.before = "resetZoom"
    /\ last.cur # Tr(0, 0, initialScale)

\* C12: a wheel event multiplies Target.scale by exp(-delta x 0.002) before
\* clamping, in the DOM engine and in the registry ZoomPan (deltaY = -100 from
\* scale 1 gives about 1.221).
C12_WheelSensitivity ==
    (engine \in {"dom", "registry"} /\ last.op = "wheel")
        => TargetTr.scale = Clamp(MulDiv(last.pre.scale, Exp20(last.d), Unit7))

\* C13: one wheel tick changes the scale of the registry ZoomPan by zoomStep
\* (unless the step is cut short by minScale or maxScale).
C13_WheelStepsByZoomStep ==
    (engine = "registry" /\ last.op = "wheel")
        => \/ Abs(TargetTr.scale - last.pre.scale) = ZoomStep
           \/ TargetTr.scale \in {MinScale, MaxScale}

----------------------------------------------------------------------------
(* Claims checked under SpecAnchor *)

\* the content-space point under the container point p in the transform t
ContentUnder(p, t) ==
    Pt(MulDiv(p.x - t.x, Sc(1), t.scale), MulDiv(p.y - t.y, Sc(1), t.scale))

NearPt(a, b, tol) == Near(a.x, b.x, tol) /\ Near(a.y, b.y, tol)

\* C3: an anchored zoom of the DOM engine leaves the content point under its
\* anchor where it was in Target, to 0.01 content px: a wheel event at P and
\* zoomIn/zoomOut at the container center keep the content point under the anchor,
\* a pinch move puts the content point that lay under the gesture-start midpoint,
\* in the gesture-start Target, under the new midpoint; also when the new scale
\* is clamped.
C3_AnchorFixed ==
    /\ last.op \in {"wheel", "zoomIn", "zoomOut"}
          => NearPt(ContentUnder(last.pt, target), ContentUnder(last.pt, last.pre), 10)
    /\ last.op = "pinchMove"
          => NearPt(ContentUnder(last.pt, target), ContentUnder(last.g.c, last.g.t), 10)

\* a wheel event away from the origin whose scale was clamped at maxScale
C3_Witness ==
    /\ last.op = "wheel"
    /\ last.pre.scale < MaxScale
    /\ target.scale = MaxScale
    /\ MulDiv(last.pre.scale, Exp15(0 - 800), Unit7) > MaxScale
    /\ Pt(target.x, target.y) # Pt(last.pre.x, last.pre.y)

----------------------------------------------------------------------------
(* Claims checked under SpecSettle *)

\* C4: in the DOM engine, after one zoomIn, zoomOut, resetZoom or centerView call
\* made from a settled state, with frames 16 ms apart and no other input, the loop
\* stops after fewer than 200 frames, and when it has stopped Current equals
\* Target in offsetX, offsetY and scale.
C4_SettlesExactly ==
    /\ budget.ticks < 200
    /\ (budget.ops > 0 /\ raf = "null") => current = target

\* a call whose animation ran for more than 20 frames and has stopped
C4_Witness ==
    /\ budget.ops > 0
    /\ budget.ticks > 20
    /\ raf = "null"
    /\ current = target
    /\ target # Tr(0, 0, initialScale)

----------------------------------------------------------------------------
(* Claims checked under SpecCoast *)

Coasting == budget.released /\ ~budget.reset

\* C5: in the DOM engine, after a drag released with velocity (10, 0), frames at
\* timeScale 1 and no further input: every frame taken while |vx| > 0.05 moves
\* Target.offsetX up and multiplies vx by 0.95, making |vx| smaller; the loop halts
\* after fewer than 200 frames, and when it has halted Velocity is exactly (0, 0).
C5_MomentumDecays ==
    /\ [](Coasting => /\ budget.ticks < 200
                       /\ raf = "null" => velocity = Pt(0, 0))
    /\ [][(Coasting /\ last'.op = "tick" /\ Abs(velocity.x) > 50)
            => /\ target'.x > target.x
               /\ Abs(velocity'.x) < Abs(velocity.x)
               /\ velocity'.x = MulDiv(velocity.x, 95, 100)
               /\ velocity'.y = 0]_vars

\* the coasting has run for more than 100 frames and the loop has halted
C5_Witness ==
    /\ Coasting
    /\ budget.ticks > 100
    /\ raf = "null"
    /\ velocity = Pt(0, 0)
    /\ target.x > Px(100)

\* C6: in the DOM engine, once resetZoom() has been called with no gesture active
\* and no input follows, a halted and rendered engine has
\* Current = Target = {scale: initialScale, offsetX: 0, offsetY: 0}.
C6_ResetReachesInitial ==
    (budget.reset /\ Settled)
        => current = Tr(0, 0, initialScale) /\ target = Tr(0, 0, initialScale)

----------------------------------------------------------------------------
(* Claims checked under SpecPinch *)

\* C11: after every pinch move of the DOM engine, Target.scale =
\* clamp(startScale x newDistance / startDistance), startScale and startDistance
\* being Target.scale and the finger distance when the two fingers landed; the
\* ratio is never taken against the previous move.  Distance 100 -> 200 from
\* scale 1 gives exactly 2.
C11_PinchScaleFromSnapshot ==
    last.op = "pinchMove"
        => target.scale = Clamp(MulDiv(last.g.t.scale, last.d, last.g.d))

\* fingers landed 100 px apart at scale 1, a move clamped the scale at maxScale,
\* and the next move, to 200 px, gives exactly 2
C11_Witness ==
    /\ last.op = "pinchMove"
    /\ last.before = "pinchMove"
    /\ last.pre.scale = MaxScale
    /\ last.g.t.scale = Sc(1)
    /\ last.g.d = Px(100)
    /\ last.d = Px(200)
    /\ target.scale = Sc(2)

----------------------------------------------------------------------------
(* Claims checked under SpecRegistry *)

\* C14: in the registry ZoomPan the state a wheel event, a mouse-drag move, a touch
\* start, a touch or pinch move or a momentum step produces has isImmediate true,
\* and the state zoomIn, zoomOut, resetZoom or centerView produces has it false.
C14_ImmediateByOrigin ==
    /\ last.op \in {"wheel", "mouseMove", "touchStart", "touchMove", "pinchMove",
                     "momentum"} => zoomPan.isImmediate
    /\ last.op \in {"zoomIn", "zoomOut", "resetZoom", "centerView"}
          => ~zoomPan.isImmediate

\* a mouse move of a drag during which a button call had switched the transition on
C14_Witness ==
    /\ last.op = "mouseMove"
    /\ last.before \in {"zoomIn", "zoomOut", "resetZoom", "centerView"}
    /\ zoomPan.isImmediate
    /\ isDragging

\* C15: a DOM frame stops the loop only when, on that frame, the offset
\* differences are at most 0.1, the scale difference at most 0.0001, both
\* velocity components at most 0.1 and no drag or pinch is active; the stopping
\* frame leaves Current equal to Target, writes it to the element and commits it
\* to the React state
C15_HaltsOnlyAtRest ==
    [][(engine = "dom" /\ raf = "step" /\ raf' = "null") =>
          /\ Abs(target'.x - current.x) <= 100
          /\ Abs(target'.y - current.y) <= 100
          /\ Abs(target'.scale - current.scale) <= 100
          /\ Abs(velocity'.x) <= 100
          /\ Abs(velocity'.y) <= 100
          /\ ~isDragging /\ ~isPinching
          /\ current' = target'
          /\ Tr(dom'.x, dom'.y, dom'.scale) = current'
          /\ dom'.transition = "none"
          /\ StateTr(zoomPan') = current'
          /\ dirty']_vars

\* a frame has stopped the loop after a wheel zoom and a drag that moved Target
C15_Witness ==
    /\ engine = "dom"
    /\ last.op = "tick"
    /\ raf = "null"
    /\ current = target
    /\ target.scale # initialScale
    /\ last.s.k = "mouse"
    /\ target.x # last.s.t.x
    /\ StateTr(zoomPan) = current

\* C16: in the DOM engine a frame callback is pending whenever a drag or a
\* pinch is active
C16_LoopRunsDuringGesture ==
    (engine = "dom" /\ (isDragging \/ isPinching)) => raf = "step"

\* a stalled frame followed a frame during a drag with Current equal to Target
C16_Witness ==
    /\ engine = "dom"
    /\ last.op = "tick"
    /\ raf = "step"
    /\ isDragging
    /\ last.before = "tick"
    /\ last.pt.x > 100000
    /\ target = current

\* C17: whenever the DOM loop is halted, Velocity is exactly (0, 0)
C17_HaltedVelocityZero ==
    (engine = "dom" /\ raf = "null") => velocity = Pt(0, 0)

\* C18: after the state-sync effect has run, Target is still the value the most
\* recent wheel, pinch-move or drag-move handler wrote
C18_HandlerWriteSurvivesSync ==
    (/\ engine = "dom"
     /\ last.op = "flush"
     /\ last.before \in {"wheel", "pinchMove", "mouseMove", "touchMove"})
        => target = last.pre

\* the engine state a rejected mouse-down must leave alone
engineState == <<target, current, velocity, isDragging, isPinching, panStart, targetStart,
                 lastInteraction, touchStart, raf, firstFrame, zoomPan, dirty, rendered,
                 dom, scalePercent>>

\* what an event that starts a drag does: the flag set, the velocity zeroed, a
\* frame pending, Target as it was
DragStarted ==
    /\ isDragging'
    /\ velocity' = Pt(0, 0)
    /\ raf' = "step"
    /\ target' = target

\* C19: in the DOM engine a left or middle mouse-down while isLoading is false,
\* and a single-touch start while isLoading is false, start a drag from any
\* state: velocity (0, 0), the gesture-start reference equal to the Target
\* offset, a frame pending, Target unchanged by the event and by every frame
\* while the drag lasts; a mouse-down with another button or while isLoading is
\* true changes no engine state
C19_DragStart ==
    [][/\ (last'.op = "mouseDown" /\ ~isLoading /\ last'.d \in {0, 1}) =>
              DragStarted /\ targetStart' = Pt(target.x, target.y)
       /\ (last'.op = "mouseDown" /\ (isLoading \/ last'.d \notin {0, 1})) =>
              UNCHANGED engineState
       /\ (last'.op = "touchStart" /\ last'.d = 1 /\ ~isLoading) =>
              /\ DragStarted
              /\ ~isPinching'
              /\ touchStart'.translateX = target.x
              /\ touchStart'.translateY = target.y
       /\ (last'.op = "tick" /\ (isDragging \/ isPinching)) => target' = target]_vars

\* a frame ran during a drag that a mouse-down started while the content was
\* coasting
C19_Witness ==
    /\ engine = "dom"
    /\ isDragging
    /\ last.op = "tick"
    /\ last.before = "mouseDown"
    /\ last.s.k = "mouse"
    /\ last.s.coast
    /\ last.s.t.x # 0
    /\ target = last.s.t
    /\ velocity = Pt(0, 0)

\* C19 as stated: a single-touch start starts a drag in every state, also while
\* isLoading is true
C19_TouchStartAlwaysDrags ==
    [][(last'.op = "touchStart" /\ last'.d = 1) =>
              /\ DragStarted
              /\ ~isPinching'
              /\ touchStart'.translateX = target.x
              /\ touchStart'.translateY = target.y]_vars

\* the Target that a drag started at s.t with the pointer at s.c has when the
\* pointer is at pt
DragTarget(s, pt, scale) == Tr(s.t.x + (pt.x - s.c.x), s.t.y + (pt.y - s.c.y), scale)

Toward(goal, a, b) ==
    \/ b <= a /\ a <= goal
    \/ goal <= a /\ a <= b

\* C21: a DOM frame that runs while a drag or a pinch is active leaves Target
\* and Velocity unchanged and moves Current toward Target
C21_NoMomentumDuringGesture ==
    [][(engine = "dom" /\ last'.op = "tick" /\ (isDragging \/ isPinching)) =>
          /\ target' = target
          /\ velocity' = velocity
          /\ Toward(target.x, current'.x, current.x)
          /\ Toward(target.y, current'.y, current.y)
          /\ Toward(target.scale, current'.scale, current.scale)]_vars

\* C22: when a DOM pinch loses one finger, the engine is left in a single-touch
\* drag session whose snapshot is the Target of that instant
C22_PinchToDragResnapshots ==
    [][(/\ engine = "dom"
        /\ ~isLoading
        /\ isPinching
        /\ last'.op = "touchEnd"
        /\ last'.d = 1) =>
          /\ isDragging'
          /\ ~isPinching'
          /\ touchStart'.active
          /\ touchStart'.n = 1
          /\ touchStart'.translateX = target.x
          /\ touchStart'.translateY = target.y]_vars

\* C23: in the DOM engine isDragging and isPinching are never both true
C23_OneGestureState ==
    engine = "dom" => ~(isDragging /\ isPinching)

\* C24: a DOM mouse move that arrives while the active drag was started by a
\* touch leaves Target, Velocity and the gesture flags as they were
C24_MouseMoveIgnoredInTouchDrag ==
    [][(engine = "dom" /\ last'.op = "mouseMove" /\ last.s.k = "touch") =>
          UNCHANGED <<target, velocity, isDragging, isPinching>>]_vars

\* C25: in the DOM engine, once the last finger has left the container, no
\* pinch is active, and no drag that a touch started is active either
C25_IdleAfterRelease ==
    (engine = "dom" /\ last.op = "touchEnd" /\ last.d = 0) =>
        /\ ~isPinching
        /\ last.s.k = "touch" => ~isDragging

\* C26: a centerView() called while the canvas measures zero width or zero
\* height leaves Target and the pending frame as they were, and no centerView()
\* writes a scale that is not positive
C26_CenterViewGuardsZeroSize ==
    [][(engine = "canvas" /\ last'.op = "centerView") =>
          /\ target'.scale > 0
          /\ ~Sized(image.size) => UNCHANGED <<target, current, raf>>]_vars

\* C27: in the canvas engine Target.scale lies in [minScale, maxScale] in every
\* reachable state, also after centerView() and after the automatic centering
C27_CanvasScaleInRange ==
    engine = "canvas" => InRange(target.scale)

\* C28: in the canvas engine the first resize observation with a nonzero size
\* that follows the load of an image on a canvas without size snaps Target and
\* Current to the fit-to-view transform of that image, and a resize that follows
\* a nonzero resize of a canvas showing an image leaves Target and Current
\* unchanged
C28_CentersOncePerLoad ==
    [][(engine = "canvas" /\ last'.op = "resize" /\ image.ref # 0) =>
          /\ (last.op = "imageLoad" /\ ~Sized(image.size) /\ Sized(image'.size)) =>
                 /\ target' = CenterTransform(image'.size, ImageSize(image.ref))
                 /\ current' = target'
          /\ (last.op = "resize" /\ Sized(image.size)) =>
                 UNCHANGED <<target, current>>]_vars

\* C29: in the canvas engine the load completion of an image that imageSrc no
\* longer names leaves the displayed image, Target and Current as they were, and
\* once no load is outstanding the displayed image is the one imageSrc names, or
\* none when imageSrc is empty
C29_StaleLoadIgnored ==
    [][engine = "canvas" =>
          /\ image'.pending = {} => image'.ref = image'.src
          /\ (last'.op = "imageLoad" /\ last'.d # image.src) =>
                 /\ image'.ref = image.ref
                 /\ UNCHANGED <<target, current>>]_vars

\* a canvas event that starts a gesture: a left-button mouse-down or a touch start
GestureStart(l) == (l.op = "mouseDown" /\ l.d = 0) \/ l.op = "touchStart"

C31_OneFramePending ==
    engine \in {"dom", "canvas"} =>
        /\ frames <= 1
        /\ frames = 1 <=> raf # "null"

\* a zoomIn() made while the frame requested by a wheel event or by an earlier
\* button call was still pending
C31_Witness ==
    /\ engine = "dom"
    /\ last.op = "zoomIn"
    /\ last.before \in {"wheel", "zoomOut", "resetZoom"}
    /\ raf = "step"
    /\ frames = 1
    /\ target # current

\* C32: in the DOM engine every step that changes the content element's
\* transform while a frame is pending or a gesture is active leaves the
\* element's transition at 'none'
C32_NeverDoubleAnimated ==
    [][(/\ engine = "dom"
        /\ raf # "null" \/ isDragging \/ isPinching
        /\ Tr(dom'.x, dom'.y, dom'.scale) # Tr(dom.x, dom.y, dom.scale))
          => dom'.transition = "none"]_vars

\* C33: in the DOM engine the value of Current changes only in frames of the
\* loop: no gesture handler, no button call and no state-sync effect changes it
C33_CurrentOwnedByLoop ==
    [][(engine = "dom" /\ last'.op # "tick") => current' = current]_vars

\* the state-sync effect ran with the loop halted, after the halting frame had
\* committed a Current that a wheel zoom had moved, and replaced currentRef
C33_Witness ==
    /\ engine = "dom"
    /\ last.op = "flush"
    /\ last.before = "tick"
    /\ raf = "null"
    /\ current = rendered
    /\ current = last.cur
    /\ current.scale # initialScale

\* C34: a DOM frame whose dt exceeds 100 ms changes none of Target, Current and
\* Velocity, writes nothing to the element or the state, and leaves one frame
\* pending whose dt is measured from this frame
C34_StalledFrameSkipped ==
    [][(engine = "dom" /\ last'.op = "tick" /\ last'.pt.x > 100000) =>
          /\ UNCHANGED <<target, current, velocity, dom, zoomPan>>
          /\ raf' = "step"
          /\ frames' = 1
          /\ ~firstFrame']_vars

\* a frame 150 ms after the previous one was skipped while the content was
\* coasting behind its Target
C34_Witness ==
    /\ engine = "dom"
    /\ last.op = "tick"
    /\ last.pt.x = 150000
    /\ last.before = "tick"
    /\ ~isDragging /\ ~isPinching
    /\ velocity # Pt(0, 0)
    /\ target # current
    /\ target = last.pre
    /\ current = last.cur

\* C35: from every state of the DOM engine with a frame pending and no gesture
\* active, one applied frame of 33.334 ms gives the same Target, Current and
\* Velocity as two applied frames of 16.667 ms, to 0.01 px and 0.00001 of scale
C35_FrameRateIndependent ==
    (engine = "dom" /\ raf = "step" /\ ~isDragging /\ ~isPinching) =>
        LET one == Step(33334, target, current, velocity, FALSE)
            half == Step(16667, target, current, velocity, FALSE)
            two == Step(16667, half.target, half.current, half.velocity, FALSE)
        IN  (half.again /\ two.again) =>
                /\ NearTr(one.target, two.target, 10)
                /\ NearTr(one.current, two.current, 10)
                /\ NearPt(one.velocity, two.velocity, 10)

\* C36: every applied DOM frame, the first one after startAnimation included,
\* leaves each component of Current between its previous value and the Target
\* component, and makes neither velocity component larger in magnitude
C36_FactorsInUnitRange ==
    [][(engine = "dom" /\ last'.op = "tick" /\ ~Stalled(last'.pt.x)) =>
          /\ Toward(target'.x, current'.x, current.x)
          /\ Toward(target'.y, current'.y, current.y)
          /\ Toward(target'.scale, current'.scale, current.scale)
          /\ Abs(velocity'.x) <= Abs(velocity.x)
          /\ Abs(velocity'.y) <= Abs(velocity.y)]_vars

\* C37: once the DOM engine is unmounted, and as long as frames keep arriving
\* 16.667 ms apart, its loop eventually has no frame pending
C37_LoopStopsAfterUnmount ==
    ([]<><<DomTick(16667)>>_vars) => ((engine = "dom" /\ ~listening) ~> (raf = "null"))

\* a button zoom directly after the opposite button zoom, neither of them clamped
ZoomUndone ==
    /\ engine = "dom"
    /\ \/ /\ last.op = "zoomIn" /\ last'.op = "zoomOut"
          /\ last.pre.scale + ZoomStep <= MaxScale
       \/ /\ last.op = "zoomOut" /\ last'.op = "zoomIn"
          /\ last.pre.scale - ZoomStep >= MinScale

\* C38: zoomIn() directly followed by zoomOut(), or the reverse, neither step
\* clamped, restores Target's scale and both offsets up to the rounding of the
\* arithmetic (0.002 px, 0.000002 of scale)
C38_ZoomRoundTripRestores ==
    [][ZoomUndone => NearTr(target', last.pre, 2)]_vars

C38_Witness ==
    /\ engine = "dom"
    /\ last.op = "zoomOut" /\ last.before = "zoomIn"
    /\ last.pre.scale < MaxScale
    /\ target.x # 0
    /\ target.scale = last.pre.scale - ZoomStep

\* C38 as stated: the round trip restores Target exactly in scale and both
\* offsets
C38_ZoomRoundTripExact ==
    [][ZoomUndone => target' = last.pre]_vars

\* C39: in the legacy DOM engine zoomIn() directly after a wheel zoom steps from
\* the scale the wheel wrote to Target, and a second zoomIn() before a re-render
\* steps from the scale the first one asked for
C39_LegacyZoomReadsLiveTarget ==
    [][/\ (engine = "legacy" /\ last.op = "wheel" /\ last'.op = "zoomIn")
            => zoomPan'.scale = Clamp(target.scale + ZoomStep)
       /\ (engine = "legacy" /\ last.op = "zoomIn" /\ last'.op = "zoomIn")
            => zoomPan'.scale = Clamp(zoomPan.scale + ZoomStep)]_vars

\* C40: a render that settles after the chart or the config has changed applies
\* nothing: svg, status, error and the callbacks stay as they are; and once no
\* timer is pending and no render in flight, what is shown belongs to the
\* latest chart and config: idle without svg for a blank chart, the error for a
\* rejected one, otherwise its diagram
C40_SupersededRenderNotApplied ==
    [][(engine \in {"mermaid", "mermaidcn"}) =>
        ( /\ (/\ last'.op = "resolved"
              /\ <<last'.pt.x, last'.pt.y>> # <<mermaid.chart, mermaid.config>>)
             => (/\ mermaid'.status = mermaid.status
                 /\ mermaid'.svg = mermaid.svg
                 /\ mermaid'.error = mermaid.error
                 /\ mermaid'.calls = mermaid.calls)
          /\ (mermaid'.timer = 0 - 1 /\ mermaid'.flights = {})
             => (IF mermaid'.chart = 0
                 THEN mermaid'.status = "idle" /\ mermaid'.svg = 0
                 ELSE IF mermaid'.chart = 2
                 THEN mermaid'.status = "error" /\ mermaid'.error = 2
                 ELSE /\ mermaid'.status = "success"
                      /\ mermaid'.svg = mermaid'.chart
                      /\ mermaid'.svgConfig = mermaid'.config) )]_vars
====
